---- MODULE Spec2Model ----
(***************************************************************************)
(* State-machine model of the IMAP Lambda layer                            *)
(* (nodejs/imap-lambda-layer/imap-client.mjs): the ImapClient wrapper      *)
(* around the ImapFlow engine, and the process-wide client cache.          *)
(*                                                                         *)
(* Every call of a public async function is a task.  A task runs           *)
(* atomically from one await to the next; the engine (ImapFlow and the     *)
(* server behind it) is the environment and settles each pending command   *)
(* with success or failure.                                                *)
(***************************************************************************)
EXTENDS Integers, Sequences, FiniteSets, TLC

\* ------------------------------------------------------------------ bounds
MaxInst == 2          \* ImapClient instances constructed in one process
MaxTasks == 2         \* caller slots (calls that may be in progress)
MaxMsgs == 2          \* messages the selected mailbox may report (exists)
MaxIdLen == 3         \* characters of a Message-ID string

Inst == 1..MaxInst
Tasks == 1..MaxTasks

\* ----------------------------------------------------------------- strings
\* A string is a sequence of one-character strings.

Digit(d) == <<"0", "1", "2", "3", "4", "5", "6", "7", "8", "9">>[d + 1]

\* Number -> decimal text, as a template literal renders a number.
RECURSIVE ToStr(_)
ToStr(n) == IF n < 10 THEN <<Digit(n)>> ELSE ToStr(n \div 10) \o <<Digit(n % 10)>>

\* s has sub at offset i (offsets count from 0, as in JavaScript).
StartsAt(s, sub, i) ==
    /\ i + Len(sub) <= Len(s)
    /\ \A k \in 1..Len(sub) : s[i + k] = sub[k]

\* String.prototype.indexOf: the first offset of sub in s, or -1.
IndexOf(s, sub) ==
    IF \E i \in 0..Len(s) : StartsAt(s, sub, i)
    THEN CHOOSE i \in 0..Len(s) :
            StartsAt(s, sub, i) /\ \A j \in 0..(i - 1) : ~StartsAt(s, sub, j)
    ELSE -1

\* String.prototype.includes
Includes(s, sub) == IndexOf(s, sub) >= 0

\* String.prototype.substring(a, b) and substring(a), for 0 <= a.
Substring(s, a, b) == SubSeq(s, a + 1, b)
SubstringFrom(s, a) == SubSeq(s, a + 1, Len(s))

IsSpace(ch) == ch \in {" ", "\n", "\t", "\r"}

RECURSIVE TrimStart(_)
TrimStart(s) == IF s # <<>> /\ IsSpace(Head(s)) THEN TrimStart(Tail(s)) ELSE s

RECURSIVE TrimEnd(_)
TrimEnd(s) ==
    IF s # <<>> /\ IsSpace(s[Len(s)]) THEN TrimEnd(SubSeq(s, 1, Len(s) - 1)) ELSE s

\* String.prototype.trim
Trim(s) == TrimEnd(TrimStart(s))

\* The messages in the order fetch() yielded them.
AsFetched(s) == s

RECURSIVE Reverse(_)
Reverse(s) == IF s = <<>> THEN <<>> ELSE Reverse(Tail(s)) \o <<Head(s)>>

Max(a, b) == IF a >= b THEN a ELSE b

\* The Message-ID as it was passed.
KeepBrackets(s) == s

\* messageId.replace(/^<|>$/g, ""): a leading "<" and a trailing ">" go.
StripBrackets(s) ==
    LET a == IF s # <<>> /\ Head(s) = "<" THEN Tail(s) ELSE s
    IN  IF a # <<>> /\ a[Len(a)] = ">" THEN SubSeq(a, 1, Len(a) - 1) ELSE a

\* this.delimiter, set to '/' by the constructor (l. 30).
Delimiter == "/"

\* folderPath.replace(/[\/\\]/g, this.delimiter)
ReplaceSeparators(s) ==
    [i \in 1..Len(s) |-> IF s[i] \in {"/", "\\"} THEN Delimiter ELSE s[i]]

\* String.prototype.split(d) for a one-character d: at least one segment.
RECURSIVE Split(_, _)
Split(s, d) ==
    LET i == IndexOf(s, <<d>>)
    IN  IF i < 0 THEN <<s>>
        ELSE <<Substring(s, 0, i)>> \o Split(SubstringFrom(s, i + 1), d)

\* Array.prototype.filter(Boolean) on strings: the empty ones go.
NonEmpty(parts) == SelectSeq(parts, LAMBDA x : x # <<>>)

\* Array.prototype.join(d)
RECURSIVE Join(_, _)
Join(parts, d) ==
    IF parts = <<>> THEN <<>>
    ELSE IF Len(parts) = 1 THEN parts[1]
    ELSE parts[1] \o <<d>> \o Join(Tail(parts), d)

\* A normalization that replaces the separators and keeps the empty parts.
NormalizedKeepingEmpty(folderPath) == ReplaceSeparators(folderPath)

\* folderMake's normalizedPath (l. 105-109).
NormalizedPath(folderPath) ==
    Join(NonEmpty(Split(ReplaceSeparators(folderPath), Delimiter)), Delimiter)

AmazonawsCom == <<"a", "m", "a", "z", "o", "n", "a", "w", "s", ".", "c", "o", "m">>
SmtpId == <<"S", "M", "T", "P", " ", "i", "d">>

\* An extraction that asks for the 'SMTP id' token only.
ExtractWithoutMarker(headerStr) ==
    IF Includes(headerStr, SmtpId) /\ IndexOf(headerStr, SmtpId) > 0
    THEN <<Trim(SubstringFrom(headerStr, IndexOf(headerStr, SmtpId) + 8))>>
    ELSE <<>>

\* #extractSesIdFromHeaders (l. 338-363).  The result is <<>> for null and
\* <<id>> for a string.
ExtractSesIdFromHeaders(headerStr) ==
    IF Includes(headerStr, AmazonawsCom) /\ Includes(headerStr, SmtpId)
    THEN LET smtpIdIndex == IndexOf(headerStr, SmtpId)
         IN  IF smtpIdIndex > 0
             THEN LET afterSmtpId == Trim(SubstringFrom(headerStr, smtpIdIndex + 8))
                      endOfIdSpace == IndexOf(afterSmtpId, <<" ">>)
                      endOfIdNewline == IndexOf(afterSmtpId, <<"\n">>)
                      endOfIdSemicolon == IndexOf(afterSmtpId, <<";">>)
                  IN  IF endOfIdSpace > 0
                      THEN <<Trim(Substring(afterSmtpId, 0, endOfIdSpace))>>
                      ELSE IF endOfIdNewline > 0
                      THEN <<Trim(Substring(afterSmtpId, 0, endOfIdNewline))>>
                      ELSE IF endOfIdSemicolon > 0
                      THEN <<Trim(Substring(afterSmtpId, 0, endOfIdSemicolon))>>
                      ELSE <<Trim(afterSmtpId)>>
             ELSE <<>>
    ELSE <<>>

\* ------------------------------------------------------------ header names
\* The empty string stands for no headerName argument.
Subject == <<"S", "u", "b", "j", "e", "c", "t">>
HeaderNames == {<<>>, Subject}
MoreHeaderNames == HeaderNames \cup {<<"s", "u", "b", "j", "e", "c", "t">>, <<"C", "c">>}

\* ------------------------------------------- the header regular expression
\* new RegExp(`^${headerName}:\\s*(.+(?:\\r?\\n\\s+.+)*)`, "im") of
\* getRawMessageHeaders (l. 527-531), for a headerName of letters.
\* Positions are 0-based; the character at position p is s[p + 1].
LineTerminators == {"\n", "\r"}
UpperCase == <<"A", "B", "C", "D", "E", "F", "G", "H", "I", "J", "K", "L", "M", "N", "O", "P", "Q", "R", "S", "T", "U", "V", "W", "X", "Y", "Z">>
LowerCase == <<"a", "b", "c", "d", "e", "f", "g", "h", "i", "j", "k", "l", "m", "n", "o", "p", "q", "r", "s", "t", "u", "v", "w", "x", "y", "z">>
\* The "i" flag: letters are compared in one case.
ToLower(ch) ==
    IF \E i \in 1..Len(UpperCase) : UpperCase[i] = ch
    THEN LowerCase[CHOOSE i \in 1..Len(UpperCase) : UpperCase[i] = ch]
    ELSE ch
\* `.+`, greedy: from q up to the end of the line.
RECURSIVE LineEnd(_, _)
LineEnd(s, q) ==
    IF q >= Len(s) \/ s[q + 1] \in LineTerminators THEN q ELSE LineEnd(s, q + 1)
\* The whitespace characters that stand at q.
RECURSIVE SpaceRun(_, _)
SpaceRun(s, q) ==
    IF q < Len(s) /\ IsSpace(s[q + 1]) THEN 1 + SpaceRun(s, q + 1) ELSE 0
\* `\s*` or `\s+` at q followed by `.+`: the longest run of at least `least`
\* whitespace characters after which a character of the line stands; the
\* position of that character, -1 if there is none.
AfterSpaces(s, q, least) ==
    LET runs == {j \in least..SpaceRun(s, q) :
                    q + j < Len(s) /\ s[q + j + 1] \notin LineTerminators}
    IN  IF runs = {} THEN -1
        ELSE q + (CHOOSE j \in runs : \A k \in runs : k <= j)
\* `(?:\r?\n\s+.+)*`, greedy, at the end e of a line: the end of the match.
RECURSIVE Continued(_, _)
Continued(s, e) ==
    LET nl == IF e + 1 < Len(s) /\ s[e + 1] = "\r" /\ s[e + 2] = "\n" THEN e + 2
              ELSE IF e < Len(s) /\ s[e + 1] = "\n" THEN e + 1
              ELSE -1
        q == IF nl = -1 THEN -1 ELSE AfterSpaces(s, nl, 1)
    IN  IF q = -1 THEN e ELSE Continued(s, LineEnd(s, q))
\* The end of the match that starts at p, -1 if none starts there.
MatchAt(s, headerName, p) ==
    LET n == Len(headerName)
    IN  IF /\ p = 0 \/ s[p] \in LineTerminators
           /\ p + n + 1 <= Len(s)
           /\ \A i \in 1..n : ToLower(s[p + i]) = ToLower(headerName[i])
           /\ s[p + n + 1] = ":"
        THEN LET q == AfterSpaces(s, p + n + 1, 0)
             IN  IF q = -1 THEN -1 ELSE Continued(s, LineEnd(s, q))
        ELSE -1
\* headersString.match(headerRegex): <<>> for null, <<match[0]>> for the
\* leftmost match.
MatchHeader(headersString, headerName) ==
    LET starts == {p \in 0..Len(headersString) :
                        MatchAt(headersString, headerName, p) # -1}
    IN  IF starts = {} THEN <<>>
        ELSE LET p == CHOOSE x \in starts : \A y \in starts : x <= y
             IN  <<SubSeq(headersString, p + 1, MatchAt(headersString, headerName, p))>>

\* ------------------------------------------------------------ engine answers
\* The raw header blocks (headersBuf) a fetched message may carry:
\*   1 "Subject: a\r\n b\r\nTo: c\r\n\r\n"
\*   2 "To: c\r\nSubject: a\r\n\r\n"
\*   3 "To: c\r\n\r\n"
\*   4 "Subject:\r\nTo: c\r\n\r\n"
\*   5 "subject: a\r\n\tb\r\n\r\n"
\*   6 "X-Subject: a\r\n\r\n"
RawHeaderTexts ==
    << <<"S", "u", "b", "j", "e", "c", "t", ":", " ", "a", "\r", "\n", " ", "b", "\r", "\n", "T", "o", ":", " ", "c", "\r", "\n", "\r", "\n">>,
       <<"T", "o", ":", " ", "c", "\r", "\n", "S", "u", "b", "j", "e", "c", "t", ":", " ", "a", "\r", "\n", "\r", "\n">>,
       <<"T", "o", ":", " ", "c", "\r", "\n", "\r", "\n">>,
       <<"S", "u", "b", "j", "e", "c", "t", ":", "\r", "\n", "T", "o", ":", " ", "c", "\r", "\n", "\r", "\n">>,
       <<"s", "u", "b", "j", "e", "c", "t", ":", " ", "a", "\r", "\n", "\t", "b", "\r", "\n", "\r", "\n">>,
       <<"X", "-", "S", "u", "b", "j", "e", "c", "t", ":", " ", "a", "\r", "\n", "\r", "\n">> >>

\* What the regular expression finds in each of them for each name.
MatchOf ==
    [h \in 1..Len(RawHeaderTexts), name \in MoreHeaderNames \ {<<>>} |->
        MatchHeader(RawHeaderTexts[h], name)]

\* The 'Received' header texts a fetched message may carry:
\*   1 "by x.amazonaws.com with SMTP id AB;"
\*   2 "by mx.example"
\*   3 "by x.amazonaws.com with SMTP id AB; M"
\*   4 "by x.amazonaws.com with SMTP id AB\nfor"
\*   5 "by x.amazonaws.com with SMTP id AB C"
\*   6 "by x.amazonaws.com with ESMTP"
\*   7 "by mx.example with SMTP id AB"
\*   8 ""
HeaderTexts ==
    << <<"b", "y", " ", "x", ".", "a", "m", "a", "z", "o", "n", "a", "w", "s", ".", "c", "o", "m", " ", "w", "i", "t", "h", " ", "S", "M", "T", "P", " ", "i", "d", " ", "A", "B", ";">>,
       <<"b", "y", " ", "m", "x", ".", "e", "x", "a", "m", "p", "l", "e">>,
       <<"b", "y", " ", "x", ".", "a", "m", "a", "z", "o", "n", "a", "w", "s", ".", "c", "o", "m", " ", "w", "i", "t", "h", " ", "S", "M", "T", "P", " ", "i", "d", " ", "A", "B", ";", " ", "M">>,
       <<"b", "y", " ", "x", ".", "a", "m", "a", "z", "o", "n", "a", "w", "s", ".", "c", "o", "m", " ", "w", "i", "t", "h", " ", "S", "M", "T", "P", " ", "i", "d", " ", "A", "B", "\n", "f", "o", "r">>,
       <<"b", "y", " ", "x", ".", "a", "m", "a", "z", "o", "n", "a", "w", "s", ".", "c", "o", "m", " ", "w", "i", "t", "h", " ", "S", "M", "T", "P", " ", "i", "d", " ", "A", "B", " ", "C">>,
       <<"b", "y", " ", "x", ".", "a", "m", "a", "z", "o", "n", "a", "w", "s", ".", "c", "o", "m", " ", "w", "i", "t", "h", " ", "E", "S", "M", "T", "P">>,
       <<"b", "y", " ", "m", "x", ".", "e", "x", "a", "m", "p", "l", "e", " ", "w", "i", "t", "h", " ", "S", "M", "T", "P", " ", "i", "d", " ", "A", "B">>,
       <<>> >>

\* The SES id #extractSesIdFromHeaders finds in each of them.
SesIdOf == [h \in 1..Len(HeaderTexts) |-> ExtractSesIdFromHeaders(HeaderTexts[h])]

\* A fetched message: its sequence number, its UID (every query asks for
\* `uid: true`), its header text (an index into HeaderTexts, 0: none
\* fetched) and the sesId property, <<>> if unset.
Msg(n, uid, h) == [n |-> n, uid |-> uid, hdr |-> h, sesId |-> <<>>]
\* fetchOne found no message.
NoMsg == Msg(0, 0, 0)

\* this.client.mailbox once the lock is held: `exists` messages, numbered
\* 1..exists; uidGap earlier messages were expunged, so that the message
\* with sequence number n has the UID n + uidGap.
UidGaps == {0, 1}
NoMailbox == [exists |-> 0, uidGap |-> 0]
UidOf(mailbox, n) == n + mailbox.uidGap

\* What search() may resolve to: sequence numbers (no `uid` option is
\* passed to search) of messages of the mailbox.
SearchResults == {<<>>, <<1>>, <<2, 1>>}
SearchAnswers(mailbox) ==
    {sr \in SearchResults : \A i \in 1..Len(sr) : sr[i] <= mailbox.exists}

\* ----------------------------------------------------------- caller inputs
Folders == {"INBOX"}
TargetFolders == {"Archive"}
MessageIds == {<<"<", "m", ">">>, <<"m">>}
Identifiers ==
    {[kind |-> "number", n |-> n, s |-> <<>>] : n \in 0..MaxMsgs}
        \cup {[kind |-> "string", n |-> 0, s |-> m] : m \in MessageIds}
\* The identifiers of the runs that look at the other operations too.
FewIdentifiers == {i \in Identifiers : i.kind = "number" => i.n = 1}

\* Every string of up to MaxIdLen characters out of "<", ">" and "m", as a
\* Message-ID.
RECURSIVE StringsUpTo(_, _)
StringsUpTo(chars, n) ==
    IF n = 0 THEN {<<>>}
    ELSE LET shorter == StringsUpTo(chars, n - 1)
         IN  shorter \cup {Append(x, ch) : x \in shorter, ch \in chars}
IdStrings == StringsUpTo({"<", ">", "m"}, MaxIdLen)
StringIdentifiers == {[kind |-> "string", n |-> 0, s |-> m] : m \in IdStrings}
MessageIdsOf(identifiers) == {i.s : i \in {j \in identifiers : j.kind = "string"}}

\* The inputs of a run: the identifiers callers pass, the UID gaps of the
\* mailboxes and the header texts (indices into HeaderTexts) of messages.
\* rawHeaders are the raw header blocks (indices into RawHeaderTexts) and
\* headerNames the names callers ask for.
FewHeaders == {1, 2}
FewInputs ==
    [identifiers |-> FewIdentifiers, uidGaps |-> {0}, headers |-> FewHeaders,
     rawHeaders |-> FewHeaders, headerNames |-> HeaderNames, folders |-> Folders]
MailboxInputs == [FewInputs EXCEPT !.identifiers = Identifiers, !.uidGaps = UidGaps]
IdentifierInputs == [FewInputs EXCEPT !.identifiers = StringIdentifiers]
HeaderInputs == [FewInputs EXCEPT !.headers = 1..Len(HeaderTexts)]
RawHeaderInputs ==
    [FewInputs EXCEPT !.rawHeaders = 1..Len(RawHeaderTexts),
                      !.headerNames = MoreHeaderNames]
\* The inputs of callers that work on two mailboxes, one of them the target
\* of the moves.
SharedInputs ==
    [identifiers |-> {[kind |-> "number", n |-> 1, s |-> <<>>]}, uidGaps |-> {0},
     headers |-> {1}, rawHeaders |-> {1}, headerNames |-> {<<>>},
     folders |-> Folders \cup TargetFolders, limits |-> {1}]
DefaultLimit == 10
Limits == {1, DefaultLimit}
FolderPaths == {<<"A", "/", "B">>}
\* The ways callers write one folder and others: with leading, trailing and
\* doubled separators, with a backslash, of one segment, empty, and made of
\* a separator only.
SlashedPaths ==
    FolderPaths \cup
    {<<"/", "A", "/", "/", "B", "/">>, <<"A", "\\", "B">>, <<"A">>, <<>>, <<"/">>}
\* The same and a path of three segments.
MoreFolderPaths == SlashedPaths \cup {<<"A", "/", "B", "/", "C">>}
\* What status() may do: resolve to a status object or to null, or throw the
\* NONEXISTENT error or another error.
StatusAnswers == {"status", "null", "NONEXISTENT", "error"}
SesIds == {<<"A", "B">>}

\* ----------------------------------------------------------------- configs
CfgA == [host |-> <<"h">>, port |-> 1, user |-> <<"u">>, pass |-> "p"]
CfgA2 == [host |-> <<"h">>, port |-> 1, user |-> <<"u">>, pass |-> "q"]
CfgPort == [host |-> <<"h">>, port |-> 12, user |-> <<"u">>, pass |-> "p"]
CfgUser == [host |-> <<"h">>, port |-> 1, user |-> <<"1", ":", "u">>, pass |-> "p"]
CfgHost == [host |-> <<"h", ":", "1">>, port |-> 1, user |-> <<"u">>, pass |-> "p"]

\* The configs callers pass to getImapClient.
Configs == {CfgA, CfgA2, CfgPort, CfgUser, CfgHost}
\* The configs used where the cache is not the subject.
FewConfigs == {CfgA, CfgPort}

\* The identity of a config for caching purposes (spec: host, port, user).
SameIdentity(a, b) == a.host = b.host /\ a.port = b.port /\ a.user = b.user

\* The cache key with the credentials in it: two configs of one identity
\* would no longer share a client.
KeyWithPass(config) ==
    config.host \o <<":">> \o ToStr(config.port) \o <<":">> \o config.user
        \o <<":", config.pass>>

\* `${config.host}:${config.port}:${config.auth.user}`
Key(config) ==
    config.host \o <<":">> \o ToStr(config.port) \o <<":">> \o config.user

Range(f) == {f[k] : k \in DOMAIN f}

\* ------------------------------------------------------------------- state
VARIABLES
    clientInstances,  \* the module's Map: cache key -> ImapClient instance
    nextInst,         \* the next instance `new ImapClient` constructs
    isConnected,      \* this.isConnected of each instance
    locks,            \* engine: mailbox locks handed out and not released
    server,           \* engine: the server's delimiter and mailboxes, and the
                      \* mailbox selected for the lock of each session
    task,             \* the calls in progress, one record per caller slot
    overlap,          \* whether callers start a call while another is running
    last,             \* observer: the call that returned last
    seen              \* observer: one earlier getImapClient call

cache == <<clientInstances, nextInst>>
obs == <<last, seen>>
vars == <<clientInstances, nextInst, isConnected, locks, server, task, overlap, last, seen>>

\* The instances constructed so far.
Created == 1..(nextInst - 1)

IdleTask ==
    [op |-> "idle", c |-> 0, pc |-> "idle", res |-> "none", ret |-> <<>>,
     nconn |-> 0, nlogout |-> 0, nacq |-> 0, nrel |-> 0,
     args |-> <<>>, loc |-> <<>>, mailbox |-> NoMailbox, log |-> <<>>]

\* A call of `op` on instance c (0: a module-level function) about to run.
NewTask(op, c, args) == [IdleTask EXCEPT !.op = op, !.c = c, !.pc = "entry", !.args = args]

\* The call returns (res "ok", value ret) or throws (res "err").
Finish(r, res, ret) == [r EXCEPT !.pc = "done", !.res = res, !.ret = ret]

Idle(t) == task[t].pc = "idle"

\* Slot t takes the next call: the lowest free slot, and, unless callers
\* overlap, only when no call is in progress.
CanStart(t) ==
    /\ Idle(t)
    /\ \A u \in Tasks : u < t => ~Idle(u)
    /\ ~overlap => \A u \in Tasks : Idle(u)

NoLast == [op |-> "none", c |-> 0, res |-> "none", nconn |-> 0, nlogout |-> 0]
NoSeen == [cfg |-> CfgA, inst |-> 0, phase |-> "none"]

InitCommon ==
    /\ clientInstances = <<>>
    /\ nextInst = 1
    /\ isConnected = [c \in Inst |-> FALSE]
    /\ locks = [c \in Inst |-> 0]
    /\ task = [t \in Tasks |-> IdleTask]
    /\ last = NoLast
    /\ seen = NoSeen

\* The server the engine talks to: its hierarchy delimiter, the paths of its
\* mailboxes, whether it answers status by what exists (consistent) or may
\* answer and fail in any way, and whether a consistent server lets this
\* user create mailboxes (writable).  `selected` is the mailbox the engine
\* has selected in a session for the lock that is out; what stays selected
\* once the lock is released is not kept, as every operation that reads
\* the selected mailbox takes a lock first.
Server(delimiter, folders, consistent, writable) ==
    [delimiter |-> delimiter, folders |-> folders, consistent |-> consistent,
     writable |-> writable, selected |-> [c \in Inst |-> "none"]]

Init == InitCommon /\ overlap = FALSE /\ server = Server(Delimiter, {}, FALSE, TRUE)

\* Callers that start a call while another call is running, on the client
\* getImapClient has constructed and cached for them.
InitShared ==
    /\ clientInstances = (Key(CfgA) :> 1)
    /\ nextInst = 2
    /\ isConnected = [c \in Inst |-> FALSE]
    /\ locks = [c \in Inst |-> 0]
    /\ task = [t \in Tasks |-> IdleTask]
    /\ last = NoLast
    /\ seen = NoSeen
    /\ overlap = TRUE
    /\ server = Server(Delimiter, {}, FALSE, TRUE)

\* The mailboxes a server may have before the first call, written with the
\* delimiter d: none, a chain from the root, or a child whose parent is not
\* a mailbox.
FolderSets(d) ==
    {{}, {<<"A">>}, {<<"A">>, <<"A", d, "B">>},
     {<<"A">>, <<"A", d, "B">>, <<"A", d, "B", d, "C">>},
     {<<"A", d, "B">>}}

\* Servers with the delimiter the client assumes.
Servers ==
    {Server(Delimiter, folders, kind[1], kind[2]) :
        folders \in FolderSets(Delimiter),
        kind \in {<<FALSE, TRUE>>, <<TRUE, TRUE>>, <<TRUE, FALSE>>}}

InitFolder == InitCommon /\ overlap = FALSE /\ server \in Servers

\* The hierarchy delimiters of servers.
Delimiters == {"/", "."}

\* Consistent servers with either delimiter.
InitDelimiter ==
    /\ InitCommon
    /\ overlap = FALSE
    /\ \E d \in Delimiters :
          server \in {Server(d, folders, TRUE, TRUE) : folders \in FolderSets(d)}

\* The servers that behave consistently.
InitFolderTwice ==
    InitCommon /\ overlap = FALSE /\ server \in {sv \in Servers : sv.consistent}

\* ------------------------------------------------------- connect (l. 38-43)
\* connect() returned to the function that awaited it.  For the public
\* connect call that is the caller; inside an operation it is the
\* operation's continuation, which runs as a step of its own.
ConnectReturned(r, ok) ==
    IF r.op = "connect"
    THEN Finish(r, IF ok THEN "ok" ELSE "err", <<>>)
    ELSE [r EXCEPT !.pc = IF ok THEN "connected" ELSE "connect_threw"]

\* connect() without the isConnected test.
CallConnectUnguarded(r) == [r EXCEPT !.pc = "await_connect", !.nconn = @ + 1]

\* connect() that returns without connecting.
CallConnectSkipped(r) == ConnectReturned(r, TRUE)

\* connect() up to its await: the engine's connect() is called only when
\* the flag is false.
CallConnect(r) ==
    IF ~isConnected[r.c]
    THEN [r EXCEPT !.pc = "await_connect", !.nconn = @ + 1]
    ELSE ConnectReturned(r, TRUE)

Connect(t, c) ==
    /\ CanStart(t)
    /\ c \in Created
    /\ task' = [task EXCEPT ![t] = CallConnect(NewTask("connect", c, <<>>))]
    /\ UNCHANGED <<cache, isConnected, locks, server, overlap, obs>>

\* The engine's connect() settles; on success connect() sets the flag.
ConnectSettles(t) ==
    /\ task[t].pc = "await_connect"
    /\ \E ok \in BOOLEAN :
        /\ isConnected' = IF ok THEN [isConnected EXCEPT ![task[t].c] = TRUE]
                                ELSE isConnected
        /\ task' = [task EXCEPT ![t] = ConnectReturned(task[t], ok)]
    /\ UNCHANGED <<cache, locks, server, overlap, obs>>

\* ---------------------------------------------------- disconnect (l. 50-55)
\* The flag after `await this.client.logout()` settled: the assignment
\* follows the await, so a rejected logout skips it.
FlagAfterLogout(c, ok) ==
    IF ok THEN [isConnected EXCEPT ![c] = FALSE] ELSE isConnected

CallDisconnect(r) ==
    IF isConnected[r.c]
    THEN [r EXCEPT !.pc = "await_logout", !.nlogout = @ + 1]
    ELSE Finish(r, "ok", <<>>)

Disconnect(t, c) ==
    /\ CanStart(t)
    /\ c \in Created
    /\ task' = [task EXCEPT ![t] = CallDisconnect(NewTask("disconnect", c, <<>>))]
    /\ UNCHANGED <<cache, isConnected, locks, server, overlap, obs>>

\* A disconnect that also drops the client from the cache.
LogoutSettlesEvicting(t) ==
    /\ task[t].pc = "await_logout"
    /\ \E ok \in BOOLEAN :
        /\ isConnected' = FlagAfterLogout(task[t].c, ok)
        /\ task' = [task EXCEPT ![t] = Finish(task[t], IF ok THEN "ok" ELSE "err", <<>>)]
        /\ clientInstances' =
              [k \in {j \in DOMAIN clientInstances : clientInstances[j] # task[t].c}
                  |-> clientInstances[k]]
    /\ UNCHANGED <<nextInst, locks, server, overlap, obs>>

LogoutSettles(t) ==
    /\ task[t].pc = "await_logout"
    /\ \E ok \in BOOLEAN :
        /\ isConnected' = FlagAfterLogout(task[t].c, ok)
        /\ task' = [task EXCEPT ![t] = Finish(task[t], IF ok THEN "ok" ELSE "err", <<>>)]
    /\ UNCHANGED <<cache, locks, server, overlap, obs>>

\* ------------------------------------------------ getImapClient (l. 552-560)
\* The constructor's `this.isConnected = false`.
ConstructedFlag == FALSE

GetImapClient(t, config) ==
    LET key == Key(config)
        hit == key \in DOMAIN clientInstances
        inst == IF hit THEN clientInstances[key] ELSE nextInst
    IN  /\ CanStart(t)
        /\ hit \/ nextInst <= MaxInst
        /\ clientInstances' = IF hit THEN clientInstances
                              ELSE (key :> nextInst) @@ clientInstances
        /\ nextInst' = IF hit THEN nextInst ELSE nextInst + 1
        /\ isConnected' = IF hit THEN isConnected
                          ELSE [isConnected EXCEPT ![nextInst] = ConstructedFlag]
        /\ task' = [task EXCEPT ![t] =
              Finish([NewTask("getImapClient", 0, [config |-> config])
                         EXCEPT !.loc = [fresh |-> ~hit]],
                     "ok", <<inst>>)]
        /\ UNCHANGED <<locks, server, overlap, obs>>

\* ----------------------------------------- clearImapClientCache (l. 567-580)
\* The loop calls disconnect() on every cached client; each call runs up to
\* its await, so every logout is issued before any of them settles.
ClearImapClientCache(t) ==
    LET cached == Range(clientInstances)
        open == {c \in cached : isConnected[c]}
    IN  /\ CanStart(t)
        /\ task' = [task EXCEPT ![t] =
              [NewTask("clearImapClientCache", 0, <<>>) EXCEPT
                  !.pc = "await_all",
                  !.nlogout = Cardinality(open),
                  !.loc = [attempted |-> cached, pending |-> open,
                           failed |-> {}, rejected |-> FALSE]]]
        /\ UNCHANGED <<cache, isConnected, locks, server, overlap, obs>>

\* A rejected disconnect() without the .catch: Promise.all rejects.
Uncaught(r, c) == [r EXCEPT !.loc.failed = @ \cup {c}, !.loc.rejected = TRUE]

\* .catch((err) => console.error(...)): the rejection is logged and the
\* promise handed to Promise.all resolves.
Caught(r, c) == [r EXCEPT !.loc.failed = @ \cup {c}]

\* One of the pending disconnect() calls settles.
ClearDisconnectSettles(t, c) ==
    /\ task[t].pc = "await_all"
    /\ c \in task[t].loc.pending
    /\ \E ok \in BOOLEAN :
        /\ isConnected' = FlagAfterLogout(c, ok)
        /\ task' = [task EXCEPT ![t] =
              LET r == [task[t] EXCEPT !.loc.pending = @ \ {c}]
              IN  IF ok THEN r ELSE Caught(r, c)]
    /\ UNCHANGED <<cache, locks, server, overlap, obs>>

\* `await Promise.all(...)` resumes: it throws on the first rejection, and
\* otherwise continues, when every promise has resolved, with
\* clientInstances.clear().
ClearResumes(t) ==
    /\ task[t].pc = "await_all"
    /\ task[t].loc.rejected \/ task[t].loc.pending = {}
    /\ IF task[t].loc.rejected
       THEN /\ task' = [task EXCEPT ![t] = Finish(task[t], "err", <<>>)]
            /\ UNCHANGED clientInstances
       ELSE /\ task' = [task EXCEPT ![t] = Finish(task[t], "ok", <<>>)]
            /\ clientInstances' = <<>>
    /\ UNCHANGED <<nextInst, isConnected, locks, server, overlap, obs>>

\* ------------------------------------------------------ mailbox operations
LockedOps ==
    {"findMessageByMessageId", "moveMessage", "moveMessageByMessageId",
     "listMessages", "listSESMessages",
     "searchMessageBySesId", "getMessageHeaders", "getRawMessageHeaders"}

\* A public operation is called: it starts with `await this.connect()`.
StartCall(t, c, op, args) ==
    /\ CanStart(t)
    /\ c \in Created
    /\ task' = [task EXCEPT ![t] = CallConnect(NewTask(op, c, args))]
    /\ UNCHANGED <<cache, isConnected, locks, server, overlap, obs>>

FindMessageByMessageId(t, c, folder, messageId) ==
    StartCall(t, c, "findMessageByMessageId", [folder |-> folder, messageId |-> messageId])

MoveMessage(t, c, sourceFolder, targetFolder, uid) ==
    StartCall(t, c, "moveMessage",
              [folder |-> sourceFolder, targetFolder |-> targetFolder, uid |-> uid])

\* The moveMessage of the earlier copy of the client (l. 690-720), which
\* takes a Message-ID and searches for it.
MoveMessageByMessageId(t, c, sourceFolder, targetFolder, messageId) ==
    StartCall(t, c, "moveMessageByMessageId",
              [folder |-> sourceFolder, targetFolder |-> targetFolder,
               messageId |-> messageId])

ListMessages(t, c, folder, limit) ==
    StartCall(t, c, "listMessages", [folder |-> folder, limit |-> limit])

ListSESMessages(t, c, folder, limit) ==
    StartCall(t, c, "listSESMessages", [folder |-> folder, limit |-> limit])

SearchMessageBySesId(t, c, folder, sesId) ==
    StartCall(t, c, "searchMessageBySesId", [folder |-> folder, sesId |-> sesId])

GetMessageHeaders(t, c, folder, identifier, headerName) ==
    StartCall(t, c, "getMessageHeaders",
              [folder |-> folder, identifier |-> identifier, headerName |-> headerName])

GetRawMessageHeaders(t, c, folder, identifier, headerName) ==
    StartCall(t, c, "getRawMessageHeaders",
              [folder |-> folder, identifier |-> identifier, headerName |-> headerName])

\* Folder operations that report a failed connect() as false, like the
\* failures inside their try blocks.
ConnectThrewCaught(t) ==
    /\ task[t].pc = "connect_threw"
    /\ task' = [task EXCEPT ![t] =
          IF @.op \in {"folderExists", "folderMake"}
          THEN Finish(@, "ok", <<FALSE>>)
          ELSE Finish(@, "err", <<>>)]
    /\ UNCHANGED <<cache, isConnected, locks, server, overlap, obs>>

\* `await this.connect()` threw: the function rejects with the error (the
\* await stands before every try block).  A folderExists called by
\* folderMake rejects into folderMake's try block.
ConnectThrew(t) ==
    /\ task[t].pc = "connect_threw"
    /\ task' = [task EXCEPT ![t] =
          IF @.op = "folderMake" /\ @.loc.callee = "folderExists"
          THEN [@ EXCEPT !.pc = "fe_threw", !.loc.callee = "none"]
          ELSE Finish(@, "err", <<>>)]
    /\ UNCHANGED <<cache, isConnected, locks, server, overlap, obs>>

\* After connect() a locked operation calls getMailboxLock(folder).
AcquireLock(t) ==
    /\ task[t].pc = "connected"
    /\ task[t].op \in LockedOps
    /\ task' = [task EXCEPT ![t] = [@ EXCEPT !.pc = "await_lock"]]
    /\ UNCHANGED <<cache, isConnected, locks, server, overlap, obs>>

\* The exit from a locked section that leaves the release to the caller.
LeaveWithoutRelease(r, res, ret) == Finish(r, res, ret)

\* The exit from try/finally that forgets the lock when the body threw.
LeaveKeepingLockOnThrow(r, res, ret) ==
    Finish([r EXCEPT !.nrel = IF res = "err" THEN @ ELSE @ + 1], res, ret)

\* finally { lock.release(); }: every exit from the try block, by return or
\* by throw, releases the lock.
Leave(r, res, ret) == Finish([r EXCEPT !.nrel = @ + 1], res, ret)

\* The engine's count of outstanding locks after task t moved from r to q.
LocksAfter(r, q) ==
    [locks EXCEPT ![r.c] = @ + (q.nacq - r.nacq) - (q.nrel - r.nrel)]

\* The server after task t moved from r to q: a release ends the session's
\* lock.
ServerAfter(r, q) ==
    IF q.nrel > r.nrel THEN [server EXCEPT !.selected[r.c] = "none"] ELSE server

\* A step of a locked operation that takes task t to record q.
LockedStep(t, q) ==
    /\ task' = [task EXCEPT ![t] = q]
    /\ locks' = LocksAfter(task[t], q)
    /\ server' = ServerAfter(task[t], q)
    /\ UNCHANGED <<cache, isConnected, overlap, obs>>

\* The engine's message commands a call has issued are kept in its log,
\* each with its arguments and, once settled, its answer.
Issued(r, cmd, arg) ==
    [r EXCEPT !.log = Append(@, [cmd |-> cmd, arg |-> arg, st |-> "pending", out |-> <<>>])]
Answered(r, st, out) ==
    [r EXCEPT !.log[Len(r.log)].st = st, !.log[Len(r.log)].out = out]

\* this.client.search({header: ["message-id", key]}) is issued.
Search(r, key) ==
    Issued([r EXCEPT !.pc = "await_search", !.loc = [searchKey |-> key]],
           "search", [key |-> key])

\* this.client.fetchOne(n, {uid: true, ...}) is issued: the second
\* argument is the query, no options argument is passed, so the engine
\* takes n as a sequence number (uid: FALSE).
FetchOne(r, n) ==
    Issued([r EXCEPT !.pc = "await_fetchOne", !.loc = [n |-> n]],
           "fetchOne", [handle |-> n, uid |-> FALSE])

\* this.client.messageMove(handle, targetFolder, options) is issued.
MessageMove(r, handle, uid) ==
    Issued([r EXCEPT !.pc = "await_move"],
           "messageMove", [handle |-> handle, uid |-> uid])

\* An engine command threw inside the try block, with the exception caught
\* and turned into a result.
RaisedSwallowed(r) == Leave(Answered(r, "throw", <<>>), "ok", <<FALSE>>)

\* An engine command threw inside the try block: the finally clause runs
\* and the exception propagates to the caller.
Raised(r) == Leave(Answered(r, "throw", <<>>), "err", <<>>)

\* A listing that gives the lock back before it fetches.
ListAfterLockReleasing(r, exists) ==
    IF exists = 0
    THEN Leave(r, "ok", << <<>> >>)
    ELSE LET from == Max(1, exists - r.args.limit + 1)
         IN  Issued([r EXCEPT !.pc = "await_fetch", !.nrel = @ + 1,
                              !.loc = [from |-> from, to |-> exists, next |-> from,
                                       messages |-> <<>>]],
                    "fetch", [from |-> from, to |-> exists])

\* listMessages and listSESMessages after the lock (l. 250-264, 294-308):
\* exists is this.client.mailbox.exists.
ListAfterLock(r, exists) ==
    IF exists = 0
    THEN Leave(r, "ok", << <<>> >>)
    ELSE LET from == Max(1, exists - r.args.limit + 1)
         IN  Issued([r EXCEPT !.pc = "await_fetch",
                              !.loc = [from |-> from, to |-> exists, next |-> from,
                                       messages |-> <<>>]],
                    "fetch", [from |-> from, to |-> exists])

\* An identifier resolution that searches for a number as for a string.
HeadersAfterLockSearching(r) ==
    Search(r, IF r.args.identifier.kind = "number"
              THEN ToStr(r.args.identifier.n)
              ELSE StripBrackets(r.args.identifier.s))

\* getMessageHeaders and getRawMessageHeaders after the lock (l. 427-449,
\* 491-513): a number is the handle, a string is searched for.
HeadersAfterLock(r) ==
    IF r.args.identifier.kind = "number"
    THEN FetchOne(r, r.args.identifier.n)
    ELSE Search(r, StripBrackets(r.args.identifier.s))

\* The continuation of `await this.client.getMailboxLock(folder)`.
AfterLock(r, exists) ==
    CASE r.op = "findMessageByMessageId" ->
            Search(r, StripBrackets(r.args.messageId))
      [] r.op = "moveMessage" -> MessageMove(r, r.args.uid, TRUE)
      [] r.op = "moveMessageByMessageId" ->
            Search(r, StripBrackets(r.args.messageId))
      [] r.op \in {"listMessages", "listSESMessages"} -> ListAfterLock(r, exists)
      [] r.op = "searchMessageBySesId" ->
            IF exists = 0 THEN Leave(r, "ok", <<>>) ELSE FetchOne(r, exists)
      [] r.op \in {"getMessageHeaders", "getRawMessageHeaders"} -> HeadersAfterLock(r)

\* The lock is handed out to task t: the engine selects the folder in the
\* session, and the operation goes on with this.client.mailbox, the
\* mailbox that is selected now (an operation that finds it empty returns,
\* and releases the lock, at once).
Granted(t, uidGaps) ==
    \E exists \in 0..MaxMsgs, uidGap \in uidGaps :
        LET q == AfterLock([task[t] EXCEPT
                               !.nacq = @ + 1,
                               !.mailbox = [exists |-> exists, uidGap |-> uidGap]],
                           exists)
        IN  /\ task' = [task EXCEPT ![t] = q]
            /\ locks' = LocksAfter(task[t], q)
            /\ server' = [server EXCEPT !.selected[task[t].c] =
                              IF q.nrel > task[t].nrel THEN "none"
                              ELSE task[t].args.folder]
            /\ UNCHANGED <<cache, isConnected, overlap, obs>>

\* An engine with one lock per mailbox: the lock is handed out when no lock
\* for the same folder is outstanding.
LockGrantedPerMailbox(t, uidGaps) ==
    /\ task[t].pc = "await_lock"
    /\ \A u \in Tasks \ {t} :
          (task[u].c = task[t].c /\ task[u].nacq > task[u].nrel)
              => task[u].args.folder # task[t].args.folder
    /\ Granted(t, uidGaps)

\* The engine hands out the lock of a session when no lock of that session
\* is outstanding (a session has one selected mailbox; the next
\* getMailboxLock is queued until the lock before is released); the
\* mailbox is selected and the operation goes on.
LockGranted(t, uidGaps) ==
    /\ task[t].pc = "await_lock"
    /\ locks[task[t].c] = 0
    /\ Granted(t, uidGaps)

\* A getMailboxLock inside the try block: the finally clause releases a
\* lock that was never handed out.
LockSettlesInsideTry(t, uidGaps) ==
    \/ /\ task[t].pc = "await_lock"
       /\ LockedStep(t, Leave(task[t], "err", <<>>))
    \/ LockGranted(t, uidGaps)

\* getMailboxLock settles.  A failure rejects the operation: the call stands
\* before the try block, so no release follows.
LockSettles(t, uidGaps) ==
    \/ /\ task[t].pc = "await_lock"
       /\ LockedStep(t, Finish(task[t], "err", <<>>))
    \/ LockGranted(t, uidGaps)

\* `if (!searchResults.length)`: null, or false from the moveMessage that
\* takes a Message-ID.
NotFound(r) == IF r.op = "moveMessageByMessageId" THEN <<FALSE>> ELSE <<>>

\* The first search result is the handle of the command that follows:
\* fetchOne(uid, ...), or messageMove(uid, targetFolder) with no options.
UseHandle(r, uid) ==
    IF r.op = "moveMessageByMessageId"
    THEN MessageMove(r, [kind |-> "number", n |-> uid, s |-> <<>>], FALSE)
    ELSE FetchOne(r, uid)

\* The continuation of search() with the lock released before the fetch.
AfterSearchReleasing(r, searchResults) ==
    IF Len(searchResults) = 0
    THEN Leave(r, "ok", NotFound(r))
    ELSE UseHandle([r EXCEPT !.nrel = @ + 1], searchResults[1])

\* The continuation of search() that goes on without a match.
AfterSearchUnchecked(r, searchResults) ==
    UseHandle(r, IF Len(searchResults) = 0 THEN 0 ELSE searchResults[1])

\* The continuation of search() that takes the last match.
AfterSearchTakingLast(r, searchResults) ==
    IF Len(searchResults) = 0
    THEN Leave(r, "ok", NotFound(r))
    ELSE UseHandle(r, searchResults[Len(searchResults)])

\* The continuation of `await this.client.search(...)`.
AfterSearch(r, searchResults) ==
    IF Len(searchResults) = 0
    THEN Leave(r, "ok", NotFound(r))
    ELSE UseHandle(r, searchResults[1])

SearchSettles(t) ==
    /\ task[t].pc = "await_search"
    /\ \/ LockedStep(t, Raised(task[t]))
       \/ \E searchResults \in SearchAnswers(task[t].mailbox) :
            LockedStep(t, AfterSearch(Answered(task[t], "ok", searchResults),
                                      searchResults))

\* A scan that goes on to the older messages after a hit.
ScanAfterFetchOneKeepsOn(r, message) ==
    LET extractedSesId ==
            IF message = NoMsg THEN <<>>
            ELSE SesIdOf[message.hdr]
        i == r.loc.n
    IN  IF i - 1 > 0 THEN FetchOne(r, i - 1)
        ELSE IF message # NoMsg /\ extractedSesId = <<r.args.sesId>>
        THEN Leave(r, "ok", <<[message EXCEPT !.sesId = extractedSesId]>>)
        ELSE Leave(r, "ok", <<>>)

\* searchMessageBySesId, the loop body after fetchOne(i) (l. 386-406).
ScanAfterFetchOne(r, message) ==
    LET extractedSesId ==
            IF message = NoMsg THEN <<>>
            ELSE SesIdOf[message.hdr]
        i == r.loc.n
    IN  IF message # NoMsg /\ extractedSesId = <<r.args.sesId>>
        THEN Leave(r, "ok", <<[message EXCEPT !.sesId = extractedSesId]>>)
        ELSE IF i - 1 > 0 THEN FetchOne(r, i - 1) ELSE Leave(r, "ok", <<>>)

\* getMessageHeaders after fetchOne (l. 454-470): the value of one header,
\* or all headers as an object.
HeadersAfterFetchOne(r, message) ==
    IF message = NoMsg
    THEN Leave(r, "ok", <<>>)
    ELSE Leave(r, "ok", <<[headers |-> message.hdr, name |-> r.args.headerName]>>)

\* getRawMessageHeaders after fetchOne (l. 518-535): null without a
\* message or its headersBuf, the match of the regular expression (or
\* null) for a headerName, else the whole header block.
RawHeadersAfterFetchOne(r, message) ==
    IF message = NoMsg \/ message.hdr = 0
    THEN Leave(r, "ok", <<>>)
    ELSE IF r.args.headerName # <<>>
    THEN Leave(r, "ok", MatchOf[message.hdr, r.args.headerName])
    ELSE Leave(r, "ok", <<RawHeaderTexts[message.hdr]>>)

\* The continuation of `await this.client.fetchOne(...)`.
AfterFetchOne(r, message) ==
    CASE r.op = "findMessageByMessageId" -> Leave(r, "ok", <<message>>)
      [] r.op = "searchMessageBySesId" -> ScanAfterFetchOne(r, message)
      [] r.op = "getMessageHeaders" -> HeadersAfterFetchOne(r, message)
      [] r.op = "getRawMessageHeaders" -> RawHeadersAfterFetchOne(r, message)

\* What fetchOne(n, ...) may resolve to: no message, or, when the mailbox
\* has a message with the sequence number n, that message.  The scan by SES
\* id asks for the 'Received' headers and gets them.
FetchOneAnswers(r, in) ==
    {NoMsg} \cup
    {Msg(r.loc.n, UidOf(r.mailbox, r.loc.n), h) :
        h \in IF r.loc.n \notin 1..r.mailbox.exists THEN {}
              ELSE IF r.op = "searchMessageBySesId" THEN in.headers
              ELSE IF r.op = "getRawMessageHeaders" THEN {0} \cup in.rawHeaders
              ELSE {0} \cup in.headers}

FetchOneSettles(t, in) ==
    /\ task[t].pc = "await_fetchOne"
    /\ \/ LockedStep(t, Raised(task[t]))
       \/ \E message \in FetchOneAnswers(task[t], in) :
            LockedStep(t, AfterFetchOne(Answered(task[t], "ok", message), message))

\* A loop body that keeps, in listSESMessages, only the messages with a
\* derived id.
PushedIfDerived(r, message) ==
    LET sesId == IF r.op = "listSESMessages" THEN SesIdOf[message.hdr] ELSE <<>>
    IN  IF r.op = "listSESMessages" /\ (sesId = <<>> \/ sesId = << <<>> >>)
        THEN [r EXCEPT !.loc.next = @ + 1]
        ELSE [r EXCEPT !.loc.messages = Append(@, [message EXCEPT !.sesId = sesId]),
                       !.loc.next = @ + 1]

\* The body of the `for await` loop over fetch(): listSESMessages decodes
\* the headers and sets sesId when one is found (l. 314-321).
Pushed(r, message) ==
    LET sesId == IF r.op = "listSESMessages" THEN SesIdOf[message.hdr] ELSE <<>>
        m == IF sesId # <<>> /\ sesId # << <<>> >>
             THEN [message EXCEPT !.sesId = sesId]
             ELSE message
    IN  [r EXCEPT !.loc.messages = Append(@, m), !.loc.next = @ + 1]

\* The fetch() generator yields the next message of from:to, ends, or
\* throws.
FetchYields(t, headers) ==
    LET r == task[t]
    IN  /\ r.pc = "await_fetch"
        /\ \/ LockedStep(t, Raised(r))
           \/ /\ r.loc.next <= r.loc.to
              /\ \E h \in (IF r.op = "listSESMessages" THEN headers ELSE {0}) :
                    LockedStep(t, Pushed(r, Msg(r.loc.next, UidOf(r.mailbox, r.loc.next), h)))
           \/ /\ r.loc.next > r.loc.to
              /\ LockedStep(t, Leave(Answered(r, "ok", <<>>), "ok",
                                     <<Reverse(r.loc.messages)>>))

\* messageMove settles (l. 213-221, 711-719): its value is not looked at.
MoveSettles(t) ==
    /\ task[t].pc = "await_move"
    /\ \/ LockedStep(t, Raised(task[t]))
       \/ \E moved \in BOOLEAN :
            LockedStep(t, Leave(Answered(task[t], "ok", moved), "ok", <<TRUE>>))

\* listFolders (l. 229-234)
ListFolders(t, c) == StartCall(t, c, "listFolders", <<>>)

ListFoldersLists(t) ==
    /\ task[t].pc = "connected"
    /\ task[t].op = "listFolders"
    /\ task' = [task EXCEPT ![t] = [@ EXCEPT !.pc = "await_listTree"]]
    /\ UNCHANGED <<cache, isConnected, locks, server, overlap, obs>>

ListTreeSettles(t) ==
    /\ task[t].pc = "await_listTree"
    /\ \E ok \in BOOLEAN :
        task' = [task EXCEPT ![t] =
            Finish(task[t], IF ok THEN "ok" ELSE "err", IF ok THEN <<"tree">> ELSE <<>>)]
    /\ UNCHANGED <<cache, isConnected, locks, server, overlap, obs>>

\* ------------------------------------------------------- folder operations
\* The task runs folderExists: called by the caller, or by folderMake.
InFolderExists(r) ==
    r.op \in {"folderExists", "folderMake"} /\ r.loc.callee = "folderExists"

\* folderExists (l. 63-86)
FolderExists(t, c, folderPath) ==
    /\ CanStart(t)
    /\ c \in Created
    /\ task' = [task EXCEPT ![t] =
          CallConnect([NewTask("folderExists", c, [folderPath |-> folderPath])
                          EXCEPT !.loc = [callee |-> "folderExists", fePath |-> folderPath]])]
    /\ UNCHANGED <<cache, isConnected, locks, server, overlap, obs>>

\* After connect() folderExists normalizes the path and calls status().
FolderExistsQueries(t) ==
    /\ task[t].pc = "connected"
    /\ InFolderExists(task[t])
    /\ task' = [task EXCEPT ![t] =
          Issued([@ EXCEPT !.pc = "await_status",
                           !.loc.fePath = ReplaceSeparators(@)],
                 "status", [path |-> ReplaceSeparators(@.loc.fePath)])]
    /\ UNCHANGED <<cache, isConnected, locks, server, overlap, obs>>

\* folderExists returned b to the function that awaited it.
FolderExistsReturned(r, b) ==
    IF r.op = "folderExists"
    THEN Finish(r, "ok", <<b>>)
    ELSE [r EXCEPT !.pc = "fe_returned", !.loc.callee = "none", !.loc.feRet = b]

\* What status(path) may do on the server.
StatusOutcomes(path) ==
    IF ~server.consistent THEN StatusAnswers
    ELSE IF path \in server.folders THEN {"status"} ELSE {"NONEXISTENT"}

\* A folderExists that takes every answer that is not an error for a status.
NullIsAStatus(answer) == answer \in {"status", "null"}

\* `status !== null`, and false from the catch block for NONEXISTENT and
\* for every other error (l. 74-84).
StatusIsThere(answer) == answer = "status"

\* status() settles.
StatusSettles(t) ==
    /\ task[t].pc = "await_status"
    /\ \E answer \in StatusOutcomes(task[t].loc.fePath) :
          task' = [task EXCEPT ![t] =
              FolderExistsReturned(
                  Answered(@, IF answer \in {"status", "null"} THEN "ok" ELSE "throw",
                           answer),
                  StatusIsThere(answer))]
    /\ UNCHANGED <<cache, isConnected, locks, server, overlap, obs>>

\* folderMake calls this.folderExists(path): it runs up to its first await.
CallFolderExists(r, path) ==
    CallConnect([r EXCEPT !.loc.callee = "folderExists", !.loc.fePath = path])

\* folderMake (l. 94-152)
FolderMake(t, c, folderPath) ==
    /\ CanStart(t)
    /\ c \in Created
    /\ task' = [task EXCEPT ![t] =
          CallConnect([NewTask("folderMake", c, [folderPath |-> folderPath])
                          EXCEPT !.loc = [callee |-> "none", fePath |-> <<>>, feRet |-> FALSE,
                                          site |-> "none", normalizedPath |-> <<>>,
                                          parts |-> <<>>, currentPath |-> <<>>, i |-> 0]])]
    /\ UNCHANGED <<cache, isConnected, locks, server, overlap, obs>>

\* After connect(): normalize, then ask whether the full path exists
\* (l. 105-112).
FolderMakeNormalizes(t) ==
    /\ task[t].pc = "connected"
    /\ task[t].op = "folderMake"
    /\ task[t].loc.callee = "none"
    /\ LET normalizedPath == NormalizedPath(task[t].args.folderPath)
       IN  task' = [task EXCEPT ![t] =
              CallFolderExists([@ EXCEPT !.loc.normalizedPath = normalizedPath,
                                         !.loc.site = "full"],
                               normalizedPath)]
    /\ UNCHANGED <<cache, isConnected, locks, server, overlap, obs>>

\* One of the creation loops (l. 130-136, 141-147) at index i: the next
\* segment is appended and created, or the loop is over.
CreateNext(r) ==
    LET segments == Split(r.loc.normalizedPath, Delimiter)
        i == r.loc.i
    IN  IF i < Len(segments)
        THEN LET currentPath ==
                     IF r.loc.currentPath # <<>>
                     THEN r.loc.currentPath \o <<Delimiter>> \o segments[i + 1]
                     ELSE segments[i + 1]
             IN  Issued([r EXCEPT !.pc = "await_create",
                                  !.loc.currentPath = currentPath],
                        "mailboxCreate", [path |-> currentPath])
        ELSE Finish(r, "ok", <<TRUE>>)

\* The while loop (l. 122-138) at its test: drop the last part and ask for
\* the parent, or leave the loop and create the whole path from the root.
ParentLoop(r) ==
    IF Len(r.loc.parts) > 0
    THEN LET parts == SubSeq(r.loc.parts, 1, Len(r.loc.parts) - 1)
             currentPath == Join(parts, Delimiter)
         IN  CallFolderExists([r EXCEPT !.loc.parts = parts,
                                        !.loc.currentPath = currentPath,
                                        !.loc.site = "parent"],
                              currentPath)
    ELSE CreateNext([r EXCEPT !.loc.currentPath = <<>>, !.loc.i = 0])

\* A folderMake that creates from the root whatever ancestor it found.
AfterFolderExistsFromRoot(r) ==
    IF r.pc = "fe_threw" THEN Finish(r, "ok", <<FALSE>>)
    ELSE IF r.loc.site = "full"
    THEN IF r.loc.feRet THEN Finish(r, "ok", <<TRUE>>)
         ELSE ParentLoop([r EXCEPT !.loc.parts = Split(r.loc.normalizedPath, Delimiter)])
    ELSE IF r.loc.feRet THEN CreateNext([r EXCEPT !.loc.currentPath = <<>>, !.loc.i = 0])
         ELSE ParentLoop(r)

\* A folderMake that goes on to the parents when the full path exists.
AfterFolderExistsUnchecked(r) ==
    IF r.pc = "fe_threw" THEN Finish(r, "ok", <<FALSE>>)
    ELSE IF r.loc.site = "full"
    THEN ParentLoop([r EXCEPT !.loc.parts = Split(r.loc.normalizedPath, Delimiter)])
    ELSE IF r.loc.feRet THEN CreateNext([r EXCEPT !.loc.i = Len(r.loc.parts)])
         ELSE ParentLoop(r)

\* folderMake continues after a folderExists call: it returned a boolean,
\* or it threw, which the catch block turns into false.
AfterFolderExists(r) ==
    IF r.pc = "fe_threw" THEN Finish(r, "ok", <<FALSE>>)
    ELSE IF r.loc.site = "full"
    THEN IF r.loc.feRet THEN Finish(r, "ok", <<TRUE>>)
         ELSE ParentLoop([r EXCEPT !.loc.parts = Split(r.loc.normalizedPath, Delimiter)])
    ELSE IF r.loc.feRet THEN CreateNext([r EXCEPT !.loc.i = Len(r.loc.parts)])
         ELSE ParentLoop(r)

FolderMakeResumes(t) ==
    /\ task[t].pc \in {"fe_returned", "fe_threw"}
    /\ task' = [task EXCEPT ![t] = AfterFolderExists(@)]
    /\ UNCHANGED <<cache, isConnected, locks, server, overlap, obs>>

\* What mailboxCreate(path) may do on the server: a consistent server
\* refuses when the user may not create mailboxes, else it creates every
\* mailbox that has a name, and may refuse the empty name.
CreateOutcomes(path) ==
    IF ~server.consistent THEN BOOLEAN
    ELSE IF ~server.writable THEN {FALSE}
    ELSE IF path # <<>> THEN {TRUE} ELSE BOOLEAN

\* A folderMake that goes on with the next segment after a mailboxCreate
\* that threw.
CreateRaisedIgnored(r) ==
    CreateNext(Answered([r EXCEPT !.loc.i = @ + 1], "throw", <<>>))

\* mailboxCreate threw: the catch block logs the error and returns false
\* (l. 148-151).
CreateRaised(r) == Finish(Answered(r, "throw", <<>>), "ok", <<FALSE>>)

\* mailboxCreate settles: the mailbox is there and the loop goes on, or the
\* command threw.
CreateSettles(t) ==
    /\ task[t].pc = "await_create"
    /\ \E ok \in CreateOutcomes(task[t].loc.currentPath) :
          /\ task' = [task EXCEPT ![t] =
                IF ok THEN CreateNext(Answered([@ EXCEPT !.loc.i = @ + 1], "ok", <<>>))
                ELSE CreateRaised(@)]
          /\ server' = IF ok THEN [server EXCEPT !.folders = @ \cup {task[t].loc.currentPath}]
                       ELSE server
    /\ UNCHANGED <<cache, isConnected, locks, overlap, obs>>

\* ------------------------------------------------------------------ callers
\* The caller takes the result of a finished call; the slot is free again.
Collect(t) ==
    /\ task[t].pc = "done"
    /\ task' = [task EXCEPT ![t] = IdleTask]
    /\ UNCHANGED <<cache, isConnected, locks, server, overlap>>

\* Observer: remember the call that returned.
NoteLast(t) ==
    /\ last' = [op |-> task[t].op, c |-> task[t].c, res |-> task[t].res,
                nconn |-> task[t].nconn, nlogout |-> task[t].nlogout]
    /\ UNCHANGED seen

\* Observer: remember the folderExists or folderMake call that returned,
\* with its argument, its result and the commands it issued.
NoteFolder(t) ==
    /\ last' = IF task[t].op \in {"folderExists", "folderMake"}
               THEN [op |-> task[t].op, c |-> task[t].c, res |-> task[t].res,
                     nconn |-> task[t].nconn, nlogout |-> task[t].nlogout,
                     args |-> task[t].args, ret |-> task[t].ret, log |-> task[t].log]
               ELSE last
    /\ UNCHANGED seen

\* Observer: remember of the call that returned how it ended and the locks
\* it acquired and released.
NoteLocks(t) ==
    /\ last' = [op |-> task[t].op, c |-> task[t].c, res |-> task[t].res,
                nconn |-> task[t].nconn, nlogout |-> task[t].nlogout,
                nacq |-> task[t].nacq, nrel |-> task[t].nrel]
    /\ UNCHANGED seen

\* Observer: remember the listMessages or listSESMessages call that
\* returned, with its arguments, the mailbox it found and its result.
NoteListing(t) ==
    /\ last' = IF task[t].op \in {"listMessages", "listSESMessages"}
               THEN [op |-> task[t].op, c |-> task[t].c, res |-> task[t].res,
                     nconn |-> task[t].nconn, nlogout |-> task[t].nlogout,
                     args |-> task[t].args, ret |-> task[t].ret,
                     mailbox |-> task[t].mailbox]
               ELSE last
    /\ UNCHANGED seen

\* Observer: remember one getImapClient call (its config and the instance
\* it returned), whether the cache was cleared since, and whether the same
\* identity was asked for again after the clear.
Sample(t) ==
    /\ UNCHANGED last
    /\ CASE task[t].op = "getImapClient" ->
              \/ seen' = [cfg |-> task[t].args.config, inst |-> task[t].ret[1],
                          phase |-> "live"]
              \/ seen' = IF seen.phase = "cleared"
                            /\ SameIdentity(seen.cfg, task[t].args.config)
                         THEN [seen EXCEPT !.phase = "reasked"]
                         ELSE seen
         [] task[t].op = "clearImapClientCache" /\ task[t].res = "ok" ->
              seen' = IF seen.phase = "live"
                      THEN [seen EXCEPT !.phase = "cleared"]
                      ELSE seen
         [] OTHER -> UNCHANGED seen

\* ------------------------------------------------------------ specifications
\* connect, disconnect and listFolders, the operation that only connects on
\* demand.
Lifecycle(t) ==
    \/ \E c \in Inst : Connect(t, c)
    \/ ConnectSettles(t)
    \/ ConnectThrew(t)
    \/ \E c \in Inst : Disconnect(t, c)
    \/ LogoutSettles(t)
    \/ \E c \in Inst : ListFolders(t, c)
    \/ ListFoldersLists(t)
    \/ ListTreeSettles(t)

\* The client cache, asked with the given configs.
Registry(t, configs) ==
    \/ \E config \in configs : GetImapClient(t, config)
    \/ ClearImapClientCache(t)
    \/ \E c \in Inst : ClearDisconnectSettles(t, c)
    \/ ClearResumes(t)

\* The operations that work under a mailbox lock.
Mailbox(t, in) ==
    \/ /\ CanStart(t)
       /\ \E c \in Inst, folder \in in.folders :
             \/ \E messageId \in MessageIdsOf(in.identifiers) :
                   FindMessageByMessageId(t, c, folder, messageId)
             \/ \E target \in TargetFolders, uid \in in.identifiers :
                   MoveMessage(t, c, folder, target, uid)
             \/ \E target \in TargetFolders, messageId \in MessageIdsOf(in.identifiers) :
                   MoveMessageByMessageId(t, c, folder, target, messageId)
             \/ \E limit \in Limits : ListMessages(t, c, folder, limit)
             \/ \E limit \in Limits : ListSESMessages(t, c, folder, limit)
             \/ \E sesId \in SesIds : SearchMessageBySesId(t, c, folder, sesId)
             \/ \E identifier \in in.identifiers, headerName \in in.headerNames :
                   \/ GetMessageHeaders(t, c, folder, identifier, headerName)
                   \/ GetRawMessageHeaders(t, c, folder, identifier, headerName)
    \/ AcquireLock(t)
    \/ LockSettles(t, in.uidGaps)
    \/ SearchSettles(t)
    \/ FetchOneSettles(t, in)
    \/ FetchYields(t, in.headers)
    \/ MoveSettles(t)

\* folderExists and folderMake.
Folder(t, folderPaths) ==
    \/ /\ CanStart(t)
       /\ \E c \in Inst, folderPath \in folderPaths :
             \/ FolderExists(t, c, folderPath)
             \/ FolderMake(t, c, folderPath)
    \/ FolderExistsQueries(t)
    \/ StatusSettles(t)
    \/ FolderMakeNormalizes(t)
    \/ FolderMakeResumes(t)
    \/ CreateSettles(t)

\* Every operation of the clients, called one after the other.
Next ==
    \E t \in Tasks :
        \/ Lifecycle(t)
        \/ Registry(t, FewConfigs)
        \/ Mailbox(t, FewInputs)
        \/ Folder(t, FolderPaths)
        \/ Collect(t) /\ UNCHANGED obs

Spec == Init /\ [][Next]_vars

\* The session lifecycle, with the observer of the call that returned last.
NextLifecycle ==
    \E t \in Tasks :
        \/ Lifecycle(t)
        \/ Registry(t, FewConfigs)
        \/ Collect(t) /\ NoteLast(t)

SpecLifecycle == Init /\ [][NextLifecycle]_vars

\* The client cache with every config of Configs, with the observer of an
\* earlier getImapClient call.
NextCache ==
    \E t \in Tasks :
        \/ Lifecycle(t)
        \/ Registry(t, Configs)
        \/ Collect(t) /\ Sample(t)

SpecCache == Init /\ [][NextCache]_vars

\* One client and its mailbox operations, on every identifier and on
\* mailboxes whose UIDs differ from the sequence numbers.
NextMailbox ==
    \E t \in Tasks :
        \/ Lifecycle(t)
        \/ GetImapClient(t, CfgA)
        \/ Mailbox(t, MailboxInputs)
        \/ Collect(t) /\ UNCHANGED obs

SpecMailbox == Init /\ [][NextMailbox]_vars

\* The same with every string of IdStrings as the Message-ID.
NextIdentifiers ==
    \E t \in Tasks :
        \/ Lifecycle(t)
        \/ GetImapClient(t, CfgA)
        \/ Mailbox(t, IdentifierInputs)
        \/ Collect(t) /\ UNCHANGED obs

SpecIdentifiers == Init /\ [][NextIdentifiers]_vars

\* The same with every header text of HeaderTexts.
NextHeaders ==
    \E t \in Tasks :
        \/ Lifecycle(t)
        \/ GetImapClient(t, CfgA)
        \/ Mailbox(t, HeaderInputs)
        \/ Collect(t) /\ UNCHANGED obs

SpecHeaders == Init /\ [][NextHeaders]_vars

\* The same with every raw header block of RawHeaderTexts and every name.
NextRawHeaders ==
    \E t \in Tasks :
        \/ Lifecycle(t)
        \/ GetImapClient(t, CfgA)
        \/ Mailbox(t, RawHeaderInputs)
        \/ Collect(t) /\ UNCHANGED obs

SpecRawHeaders == Init /\ [][NextRawHeaders]_vars

\* One client and its folder operations, on every path of MoreFolderPaths
\* and on servers with mailboxes.
NextFolder ==
    \E t \in Tasks :
        \/ GetImapClient(t, CfgA)
        \/ ConnectSettles(t)
        \/ ConnectThrew(t)
        \/ Folder(t, MoreFolderPaths)
        \/ Collect(t) /\ UNCHANGED obs

SpecFolder == InitFolder /\ [][NextFolder]_vars

\* The folder operations on the paths of SlashedPaths and on consistent
\* servers, with the observer of the folder call that returned last.
NextFolderTwice ==
    \E t \in Tasks :
        \/ GetImapClient(t, CfgA)
        \/ ConnectSettles(t)
        \/ ConnectThrew(t)
        \/ Folder(t, SlashedPaths)
        \/ Collect(t) /\ NoteFolder(t)

SpecFolderTwice == InitFolderTwice /\ [][NextFolderTwice]_vars

\* The folder operations on servers with either delimiter.
NextDelimiter ==
    \E t \in Tasks :
        \/ GetImapClient(t, CfgA)
        \/ ConnectSettles(t)
        \/ ConnectThrew(t)
        \/ Folder(t, SlashedPaths)
        \/ Collect(t) /\ UNCHANGED obs

SpecDelimiter == InitDelimiter /\ [][NextDelimiter]_vars

\* One client and its mailbox operations called one after the other, with
\* the observer of the call that returned last; the engine hands out a lock
\* that is free to the operation that waits for it.
NextLocks ==
    \E t \in Tasks :
        \/ Lifecycle(t)
        \/ GetImapClient(t, CfgA)
        \/ Mailbox(t, FewInputs)
        \/ Collect(t) /\ NoteLocks(t)

SpecLocks ==
    /\ Init
    /\ [][NextLocks]_vars
    /\ \A t \in Tasks : WF_vars(LockGranted(t, FewInputs.uidGaps))

\* One client shared by callers whose calls overlap in time: they move and
\* list messages in two mailboxes, one of them the target of the moves.
NextShared ==
    \E t \in Tasks :
        \/ ConnectSettles(t)
        \/ ConnectThrew(t)
        \/ /\ CanStart(t)
           /\ \E c \in Inst :
                 \/ \E folder \in Folders, target \in TargetFolders,
                       uid \in SharedInputs.identifiers :
                       MoveMessage(t, c, folder, target, uid)
                 \/ \E folder \in SharedInputs.folders, limit \in SharedInputs.limits :
                       ListMessages(t, c, folder, limit)
        \/ AcquireLock(t)
        \/ LockSettles(t, SharedInputs.uidGaps)
        \/ FetchYields(t, SharedInputs.headers)
        \/ MoveSettles(t)
        \/ Collect(t) /\ UNCHANGED obs

SpecShared == InitShared /\ [][NextShared]_vars

\* One client and its two listings, called one after the other on mailboxes
\* with and without messages and UID gaps, with the observer of the listing
\* that returned last.
NextListings ==
    \E t \in Tasks :
        \/ GetImapClient(t, CfgA)
        \/ ConnectSettles(t)
        \/ ConnectThrew(t)
        \/ /\ CanStart(t)
           /\ \E c \in Inst, folder \in Folders, limit \in Limits :
                 \/ ListMessages(t, c, folder, limit)
                 \/ ListSESMessages(t, c, folder, limit)
        \/ AcquireLock(t)
        \/ LockSettles(t, UidGaps)
        \/ FetchYields(t, FewHeaders)
        \/ Collect(t) /\ NoteListing(t)

SpecListings == Init /\ [][NextListings]_vars

\* Callers whose calls overlap in time and who get their clients from the
\* cache, connect them and clear the cache.
InitOverlap ==
    InitCommon /\ overlap = TRUE /\ server = Server(Delimiter, {}, FALSE, TRUE)

NextOverlap ==
    \E t \in Tasks :
        \/ Registry(t, FewConfigs)
        \/ \E c \in Inst : Connect(t, c)
        \/ ConnectSettles(t)
        \/ Collect(t) /\ UNCHANGED obs

SpecOverlap == InitOverlap /\ [][NextOverlap]_vars

\* -------------------------------------------------------------------- claims
Returned(t) == task[t].pc = "done"
Quiet == \A t \in Tasks : task[t].pc \in {"idle", "done"}

\* The engine commands other than connect and logout, while in flight.
WorkPcs == {"await_search", "await_fetch", "await_fetchOne", "await_move"}
FolderPcs == {"await_status", "await_create"}
CommandPcs == {"await_lock", "await_listTree"} \cup WorkPcs \cup FolderPcs

\* C1: in every locked operation and for every outcome of its engine
\* commands the lock is released exactly once: a returned call has made as
\* many release() calls as successful getMailboxLock calls, no call releases
\* more than it acquired, and once every operation has returned the engine
\* has no lock outstanding.
LockReleasedExactlyOnce ==
    /\ \A t \in Tasks :
        /\ task[t].nrel <= task[t].nacq
        /\ Returned(t) => task[t].nrel = task[t].nacq
    /\ Quiet => \A c \in Inst : locks[c] = 0

\* A locked operation threw inside its locked section and has released.
LockReleasedAfterThrow ==
    \E t \in Tasks :
        /\ Returned(t) /\ task[t].op \in LockedOps /\ task[t].res = "err"
        /\ task[t].nacq = 1 /\ task[t].nrel = 1

\* C2: when disconnect() finishes, by return or by throw, isConnected is
\* false.
DisconnectAlwaysResetsFlag ==
    \A t \in Tasks :
        task[t].op = "disconnect" /\ Returned(t) => ~isConnected[task[t].c]

\* C3: a connect() call that follows a successful connect() call on the
\* same client calls the engine's connect() not at all, returns, and leaves
\* the flag true, so the two calls make at most one handshake; and no
\* connect() awaits the engine while the flag is true.
\* (Spec: SpecLifecycle.)
SecondConnectIsNoOp ==
    \A t \in Tasks :
        /\ task[t].pc = "await_connect" => ~isConnected[task[t].c]
        /\ (task[t].op = "connect" /\ last.op = "connect" /\ last.res = "ok"
                /\ last.c = task[t].c)
            => /\ Returned(t) /\ task[t].res = "ok"
               /\ task[t].nconn = 0
               /\ last.nconn + task[t].nconn <= 1
               /\ isConnected[task[t].c]

\* Two connect() calls in a row have returned, with one handshake.
ConnectedTwice ==
    \E t \in Tasks :
        /\ task[t].op = "connect" /\ Returned(t)
        /\ last.op = "connect" /\ last.res = "ok" /\ last.c = task[t].c
        /\ last.nconn = 1 /\ task[t].nconn = 0

\* C4: two disconnect() calls in a row on one client make at most one
\* logout() between them, and the flag is false after the second.
\* (Spec: SpecLifecycle.)
DisconnectTwiceOneLogout ==
    \A t \in Tasks :
        (task[t].op = "disconnect" /\ last.op = "disconnect" /\ last.c = task[t].c)
            => /\ last.nlogout + task[t].nlogout <= 1
               /\ Returned(t) => ~isConnected[task[t].c]

\* C5: while the cache is not cleared, a getImapClient call returns the
\* instance an earlier call returned for a config of the same identity.
\* (Spec: SpecCache.)
SameIdentitySameInstance ==
    \A t \in Tasks :
        (task[t].op = "getImapClient" /\ Returned(t) /\ seen.phase = "live"
            /\ SameIdentity(seen.cfg, task[t].args.config))
            => task[t].ret[1] = seen.inst

\* Two configs of one identity that differ (in the password) got the same
\* instance.
SharedByTwoConfigs ==
    \E t \in Tasks :
        /\ task[t].op = "getImapClient" /\ Returned(t) /\ seen.phase = "live"
        /\ SameIdentity(seen.cfg, task[t].args.config)
        /\ seen.cfg # task[t].args.config
        /\ task[t].ret[1] = seen.inst

\* C6: getImapClient returns distinct instances for configs that differ in
\* host, port or user.  (Spec: SpecCache.)
DifferentIdentityDifferentInstance ==
    \A t \in Tasks :
        (task[t].op = "getImapClient" /\ Returned(t) /\ seen.phase = "live"
            /\ ~SameIdentity(seen.cfg, task[t].args.config))
            => task[t].ret[1] # seen.inst

\* C7: the first getImapClient call for an identity after the clear that
\* removed it constructs an instance, which is not the one returned before
\* the clear and is not connected.  (Spec: SpecCache.)
ClearedIdentityGetsFreshClient ==
    \A t \in Tasks :
        (task[t].op = "getImapClient" /\ Returned(t) /\ seen.phase = "cleared"
            /\ SameIdentity(seen.cfg, task[t].args.config))
            => /\ task[t].loc.fresh
               /\ task[t].ret[1] # seen.inst
               /\ ~isConnected[task[t].ret[1]]

\* C8: clearImapClientCache calls disconnect() on every cached client, and
\* when it is over it has not rejected, every logout has settled, every
\* client whose disconnect did not fail is disconnected, and the registry
\* is empty, whichever disconnects failed.  (Spec: SpecCache.)
ClearSurvivesFailingDisconnect ==
    \A t \in Tasks :
        task[t].op = "clearImapClientCache" =>
            /\ task[t].pc = "await_all" =>
                    Range(clientInstances) \subseteq task[t].loc.attempted
            /\ Returned(t) =>
                /\ task[t].res = "ok"
                /\ clientInstances = <<>>
                /\ task[t].loc.pending = {}
                /\ \A c \in task[t].loc.attempted \ task[t].loc.failed :
                        ~isConnected[c]

\* A clear is over in which one client's logout failed and another's
\* succeeded.
ClearedWithOneFailure ==
    \E t \in Tasks :
        /\ task[t].op = "clearImapClientCache" /\ Returned(t)
        /\ task[t].nlogout = 2
        /\ Cardinality(task[t].loc.failed) = 1

\* C9: no engine command is in flight on a client whose isConnected is
\* false.
NoCommandWhileDisconnected ==
    \A t \in Tasks : task[t].pc \in CommandPcs => isConnected[task[t].c]

\* A command is in flight in an operation that had to connect first.
CommandAfterOwnConnect ==
    \E t \in Tasks : task[t].pc \in CommandPcs /\ task[t].nconn = 1

\* C10 as claimed: every command after connect, status and mailboxCreate
\* included, is issued while the operation holds a mailbox lock.
EveryCommandUnderLock ==
    \A t \in Tasks :
        task[t].pc \in WorkPcs \cup FolderPcs
            => task[t].nacq = 1 /\ task[t].nrel = 0

\* C10 amended: search, fetch, fetchOne and messageMove are issued only by
\* the locked operations, after connect and between the getMailboxLock and
\* its release; folderExists and folderMake take no lock, and their status
\* and mailboxCreate are issued after connect with no lock held.
WorkCommandsUnderLock ==
    \A t \in Tasks :
        /\ task[t].pc \in WorkPcs
            => /\ task[t].op \in LockedOps
               /\ task[t].nacq = 1 /\ task[t].nrel = 0
               /\ locks[task[t].c] = 1
               /\ isConnected[task[t].c]
        /\ task[t].pc = "await_lock" => task[t].nacq = 0 /\ isConnected[task[t].c]
        /\ task[t].pc \in FolderPcs
            => /\ task[t].op \in {"folderExists", "folderMake"}
               /\ task[t].nacq = 0 /\ locks[task[t].c] = 0
               /\ isConnected[task[t].c]

\* The scan by SES id is fetching a message under its lock, not the first.
ScanningUnderLock ==
    \E t \in Tasks :
        /\ task[t].op = "searchMessageBySesId" /\ task[t].pc = "await_fetchOne"
        /\ task[t].loc.n = 1
        /\ task[t].nacq = 1 /\ task[t].nrel = 0

\* ----------------------------------------------- claims on the message log
\* The entries of a call's log that are the command cmd.
Cmds(r, cmd) == {i \in 1..Len(r.log) : r.log[i].cmd = cmd}
\* A search of the call found a message.
Matched(r) ==
    \E i \in Cmds(r, "search") : r.log[i].st = "ok" /\ r.log[i].out # <<>>
\* A search of the call found nothing.
Unmatched(r) ==
    \E i \in Cmds(r, "search") : r.log[i].st = "ok" /\ r.log[i].out = <<>>
\* The command cmd of the call raised.
Threw(r, cmd) == \E i \in Cmds(r, cmd) : r.log[i].st = "throw"

MoveOps == {"moveMessage", "moveMessageByMessageId"}
HeaderOps == {"getMessageHeaders", "getRawMessageHeaders"}
\* The call is a moveMessage that was given a Message-ID.
MovesMessageId(r) ==
    \/ r.op = "moveMessageByMessageId"
    \/ r.op = "moveMessage" /\ r.args.uid.kind = "string"
\* The call is a header operation that was given a number.
GivenNumber(r) == r.op \in HeaderOps /\ r.args.identifier.kind = "number"

\* C11: a moveMessage given a Message-ID issues messageMove only after a
\* search for it found a message, and when it holds the lock and no search
\* found a message (and none raised) it returns false and raises nothing.
MoveOfUnknownMessageIdIsFalse ==
    \A t \in Tasks :
        MovesMessageId(task[t]) =>
            /\ Cmds(task[t], "messageMove") # {} => Matched(task[t])
            /\ (Returned(t) /\ task[t].nacq = 1 /\ ~Matched(task[t])
                    /\ ~Threw(task[t], "search"))
                => task[t].res = "ok" /\ task[t].ret = <<FALSE>>

\* C12: a moveMessage that has returned true has had its messageMove
\* answered without raising; when its search or its messageMove raised,
\* the call threw and returned neither true nor false; and it returns
\* nothing but true or false.
MoveTrueOnlyAfterMove ==
    \A t \in Tasks :
        (task[t].op \in MoveOps /\ Returned(t)) =>
            /\ task[t].ret = <<TRUE>> =>
                \E i \in Cmds(task[t], "messageMove") : task[t].log[i].st = "ok"
            /\ (Threw(task[t], "search") \/ Threw(task[t], "messageMove"))
                => task[t].res = "err" /\ task[t].ret = <<>>
            /\ task[t].res = "ok" => task[t].ret \in {<<TRUE>>, <<FALSE>>}

\* A moveMessage whose messageMove raised has thrown.
MoveFailureReachedCaller ==
    \E t \in Tasks :
        /\ task[t].op \in MoveOps /\ Returned(t)
        /\ Threw(task[t], "messageMove")
        /\ task[t].res = "err"

\* C13: a listMessages call with a limit of at least 1 that returns on a
\* mailbox of N messages returns min(N, limit) summaries, those numbered N,
\* N-1, ... in this order; it has fetched the window max(1, N-limit+1):N,
\* and nothing when N = 0.
ListMessagesWindow ==
    \A t \in Tasks :
        (task[t].op = "listMessages" /\ Returned(t) /\ task[t].res = "ok") =>
            LET N == task[t].mailbox.exists
                limit == task[t].args.limit
                list == task[t].ret[1]
                fetches == Cmds(task[t], "fetch")
            IN  /\ Len(list) = IF N < limit THEN N ELSE limit
                /\ \A k \in 1..Len(list) : list[k].n = N - k + 1
                /\ N = 0 => list = <<>> /\ fetches = {}
                /\ N > 0 =>
                    /\ Cardinality(fetches) = 1
                    /\ \A i \in fetches :
                        /\ task[t].log[i].arg.to = N
                        /\ task[t].log[i].arg.from =
                                (IF N - limit + 1 > 1 THEN N - limit + 1 ELSE 1)

\* A list cut by the limit has been returned: the newest message of
\* several.
ListCutByLimit ==
    \E t \in Tasks :
        /\ task[t].op = "listMessages" /\ Returned(t) /\ task[t].res = "ok"
        /\ task[t].mailbox.exists = MaxMsgs
        /\ task[t].args.limit = 1
        /\ Len(task[t].ret[1]) = 1
        /\ task[t].ret[1][1].n = MaxMsgs

\* C14: in findMessageByMessageId, getMessageHeaders and
\* getRawMessageHeaders a search that finds nothing is followed by no
\* fetchOne and the call returns null without raising; the two header
\* operations also return null when fetchOne yields no message.
NotFoundIsNull ==
    \A t \in Tasks :
        task[t].op \in {"findMessageByMessageId"} \cup HeaderOps =>
            /\ Unmatched(task[t]) =>
                /\ Cmds(task[t], "fetchOne") = {}
                /\ Returned(t) /\ task[t].res = "ok" /\ task[t].ret = <<>>
            /\ (task[t].op \in HeaderOps /\ Returned(t)
                    /\ \E i \in Cmds(task[t], "fetchOne") :
                          task[t].log[i].st = "ok" /\ task[t].log[i].out = NoMsg)
                => task[t].res = "ok" /\ task[t].ret = <<>>

\* A header operation has returned null after a search that found nothing.
HeadersOfUnknownMessageId ==
    \E t \in Tasks :
        /\ task[t].op \in HeaderOps /\ Returned(t)
        /\ Unmatched(task[t])
        /\ task[t].ret = <<>>

\* C15: a header operation given a number issues no search, and the handle
\* of its fetchOne is that number.
NumberIsTheHandle ==
    \A t \in Tasks :
        GivenNumber(task[t]) =>
            /\ Cmds(task[t], "search") = {}
            /\ \A i \in Cmds(task[t], "fetchOne") :
                    task[t].log[i].arg.handle = task[t].args.identifier.n
            /\ (task[t].nacq = 1 /\ task[t].pc # "await_lock")
                => Cardinality(Cmds(task[t], "fetchOne")) = 1

\* A header operation given the number MaxMsgs has fetched and returned.
FetchedByNumber ==
    \E t \in Tasks :
        /\ GivenNumber(task[t]) /\ task[t].args.identifier.n = MaxMsgs
        /\ Returned(t) /\ task[t].ret # <<>>
        /\ Cmds(task[t], "fetchOne") # {}

\* C16: the message a header operation given the number n gets from
\* fetchOne, and returns the headers of, is the message whose UID is n.
NumberIsTheUid ==
    \A t \in Tasks :
        GivenNumber(task[t]) =>
            \A i \in Cmds(task[t], "fetchOne") :
                (task[t].log[i].st = "ok" /\ task[t].log[i].out # NoMsg)
                    => task[t].log[i].out.uid = task[t].args.identifier.n

\* C17: an operation given the Message-ID "<id>" or "id", id a string with
\* no leading "<" and no trailing ">", searches with the key id; and for
\* every string the key is the string without one leading "<", if it has
\* one, and without one trailing ">", if it has one.
Bare(id) ==
    id = <<>> \/ (Head(id) # "<" /\ id[Len(id)] # ">")
GivenMessageId(r) ==
    IF r.op \in HeaderOps \cup {"moveMessage"}
    THEN IF r.op = "moveMessage" THEN r.args.uid.s ELSE r.args.identifier.s
    ELSE r.args.messageId
HasMarkers(text) == Includes(text, AmazonawsCom) /\ Includes(text, SmtpId)
SesDelimiters == {" ", "\n", ";"}
\* The token after the first 'SMTP id': leading whitespace skipped, up to
\* the first space, newline or semicolon.
TokenAfterSmtpId(text) ==
    LET after == TrimStart(SubstringFrom(text, IndexOf(text, SmtpId) + Len(SmtpId)))
        ends == {i \in 1..Len(after) : after[i] \in SesDelimiters}
        end == IF ends = {} THEN Len(after) + 1
               ELSE CHOOSE i \in ends : \A j \in ends : i <= j
    IN  SubSeq(after, 1, end - 1)
\* The summaries a listSESMessages call has returned.
SesSummaries(r) ==
    IF r.op = "listSESMessages" /\ r.pc = "done" /\ r.res = "ok"
    THEN {r.ret[1][k] : k \in 1..Len(r.ret[1])}
    ELSE {}

\* C18: the sesId of a summary whose header text has the marker and the
\* token is the token after the first 'SMTP id', which holds no space,
\* newline or semicolon.
DerivedIdIsTheToken ==
    \A t \in Tasks : \A m \in SesSummaries(task[t]) :
        HasMarkers(HeaderTexts[m.hdr]) =>
            /\ m.sesId = <<TokenAfterSmtpId(HeaderTexts[m.hdr])>>
            /\ \A i \in 1..Len(m.sesId[1]) : m.sesId[1][i] \notin SesDelimiters

\* C19: a listSESMessages call whose engine commands did not raise returns
\* normally a summary of every message of its window, and a summary whose
\* header text lacks the marker or the token has no sesId.
NoMarkersNoDerivedId ==
    \A t \in Tasks :
        /\ (task[t].op = "listSESMessages" /\ Returned(t) /\ task[t].nacq = 1
                /\ ~Threw(task[t], "fetch"))
            => /\ task[t].res = "ok"
               /\ Len(task[t].ret[1]) =
                    (IF task[t].mailbox.exists < task[t].args.limit
                     THEN task[t].mailbox.exists ELSE task[t].args.limit)
        /\ \A m \in SesSummaries(task[t]) :
              ~HasMarkers(HeaderTexts[m.hdr]) => m.sesId = <<>>

\* A list holds summaries without sesId of a message with the marker only
\* and of a message with the token only.
ListedWithoutDerivedId ==
    \E t \in Tasks :
        \E m1, m2 \in SesSummaries(task[t]) :
            /\ Includes(HeaderTexts[m1.hdr], AmazonawsCom)
            /\ ~Includes(HeaderTexts[m1.hdr], SmtpId)
            /\ Includes(HeaderTexts[m2.hdr], SmtpId)
            /\ ~Includes(HeaderTexts[m2.hdr], AmazonawsCom)
            /\ m1.sesId = <<>> /\ m2.sesId = <<>>

\* ------------------------------------------------ claims on the raw headers
CrLf == <<"\r", "\n">>
\* The header block (lines end with CR LF) has a line at position p.
LineStartsAt(s, p) == p = 0 \/ (p >= 2 /\ SubSeq(s, p - 1, p) = CrLf)
\* A line starts at p with `name:`, in either case.
HeaderStartsAt(s, name, p) ==
    /\ LineStartsAt(s, p)
    /\ p + Len(name) + 1 <= Len(s)
    /\ \A i \in 1..Len(name) : ToLower(s[p + i]) = ToLower(name[i])
    /\ s[p + Len(name) + 1] = ":"
\* The end of the line that holds position q.
RECURSIVE EndOfLine(_, _)
EndOfLine(s, q) ==
    IF q >= Len(s) \/ s[q + 1] = "\r" THEN q ELSE EndOfLine(s, q + 1)
\* The end of the header whose line ends at e: its continuation lines, the
\* lines that begin with a space or a tab, belong to it.
RECURSIVE EndOfHeader(_, _)
EndOfHeader(s, e) ==
    IF e + 3 <= Len(s) /\ SubSeq(s, e + 1, e + 2) = CrLf /\ s[e + 3] \in {" ", "\t"}
    THEN EndOfHeader(s, EndOfLine(s, e + 2))
    ELSE e
\* The first header of the name with its continuation lines, <<>> if the
\* block has none.
FirstHeader(s, name) ==
    LET starts == {p \in 0..Len(s) : HeaderStartsAt(s, name, p)}
    IN  IF starts = {} THEN <<>>
        ELSE LET p == CHOOSE x \in starts : \A y \in starts : x <= y
             IN  <<SubSeq(s, p + 1, EndOfHeader(s, EndOfLine(s, p)))>>

\* C20: getRawMessageHeaders with a headerName, on a message with a header
\* block, returns the first header whose line starts with `headerName:`, in
\* either case, with its continuation lines and nothing else, and null when
\* no line starts so.
RawHeaderIsTheHeader ==
    \A t \in Tasks :
        (task[t].op = "getRawMessageHeaders" /\ Returned(t) /\ task[t].res = "ok"
            /\ task[t].args.headerName # <<>>
            /\ \E i \in Cmds(task[t], "fetchOne") :
                  task[t].log[i].st = "ok" /\ task[t].log[i].out # NoMsg
                    /\ task[t].log[i].out.hdr # 0)
            => \A i \in Cmds(task[t], "fetchOne") :
                  task[t].ret =
                    FirstHeader(RawHeaderTexts[task[t].log[i].out.hdr],
                                task[t].args.headerName)


\* The last command of a call's log.
LastCmd(r) == r.log[Len(r.log)]

\* C21: folderExists returns true exactly when status() resolved to a
\* status that is not null; when status() threw, NONEXISTENT or anything
\* else, it returns false and does not throw.  The same holds for the
\* value folderMake gets from its folderExists calls.
FolderExistsIsTheStatus ==
    \A t \in Tasks :
        LET r == task[t]
        IN  /\ r.op = "folderExists" /\ r.pc = "done" /\ r.log # <<>>
                => /\ r.res = "ok"
                   /\ r.ret = <<LastCmd(r).st = "ok" /\ LastCmd(r).out # "null">>
            /\ r.op = "folderMake" /\ r.pc = "fe_returned"
                => r.loc.feRet = (LastCmd(r).st = "ok" /\ LastCmd(r).out # "null")

\* C21 witness: status() threw an error other than NONEXISTENT and
\* folderExists returned false.
FolderExistsFalseOnError ==
    \E t \in Tasks :
        /\ task[t].op = "folderExists" /\ task[t].pc = "done"
        /\ task[t].log # <<>> /\ LastCmd(task[t]).out = "error"
        /\ task[t].res = "ok" /\ task[t].ret = <<FALSE>>

\* The pieces of a path between forward and backward slashes.
RECURSIVE PathPieces(_)
PathPieces(s) ==
    IF s = <<>> THEN << <<>> >>
    ELSE LET rest == PathPieces(Tail(s))
         IN  IF Head(s) \in {"/", "\\"} THEN << <<>> >> \o rest
             ELSE << <<Head(s)>> \o rest[1] >> \o Tail(rest)

\* The segments a caller means by a path: its pieces that are not empty.
Segments(s) == SelectSeq(PathPieces(s), LAMBDA x : x # <<>>)

\* The mailboxCreate commands of a log.
Creates(log) == SelectSeq(log, LAMBDA e : e.cmd = "mailboxCreate")

\* C22: folderMake is idempotent.  When the status of the full normalized
\* path says that it exists, folderMake issues no mailboxCreate and returns
\* true; and on a consistent server that lets the user create mailboxes,
\* when the folder call before was a folderMake of the same folder (a path
\* with at least one segment), that call returned true, and this one issues
\* no mailboxCreate and returns true.
FolderMakeIdempotent ==
    \A t \in Tasks :
        LET r == task[t]
            again == /\ server.consistent /\ server.writable
                     /\ last.op = "folderMake" /\ last.log # <<>>
                     /\ Segments(last.args.folderPath) = Segments(r.args.folderPath)
                     /\ Segments(r.args.folderPath) # <<>>
        IN  r.op = "folderMake" /\ r.log # <<>> =>
              /\ r.log[1].out = "status" \/ again =>
                    /\ Creates(r.log) = <<>>
                    /\ r.pc = "done" => r.res = "ok" /\ r.ret = <<TRUE>>
              /\ again => last.res = "ok" /\ last.ret = <<TRUE>>

\* C22 witness: a folderMake that created the folder returned true, and a
\* second folderMake of the same folder, written another way, returned
\* true.
MadeTwice ==
    \E t \in Tasks :
        /\ task[t].op = "folderMake" /\ task[t].pc = "done" /\ task[t].log # <<>>
        /\ last.op = "folderMake" /\ Creates(last.log) # <<>>
        /\ Segments(last.args.folderPath) = Segments(task[t].args.folderPath)
        /\ last.args.folderPath # task[t].args.folderPath
        /\ task[t].ret = <<TRUE>>

Min(a, b) == IF a < b THEN a ELSE b

\* Two logs agree on the answers to their first n commands.
SameAnswers(a, b, n) == \A j \in 1..n : a[j].st = b[j].st /\ a[j].out = b[j].out

\* C23: folderMake acts on the segments of its argument, however the
\* separators are written.  Its first command is the status of the segments
\* joined by the delimiter; and of two folderMake calls whose arguments have
\* the same segments, as long as the server answered both alike, the next
\* command (status or mailboxCreate, and its path) is the same, and so is
\* the result.
SameSegmentsSameCommands ==
    \A t \in Tasks :
        LET r == task[t]
            n == Min(Len(r.log), Len(last.log))
        IN  r.op = "folderMake" /\ r.log # <<>> =>
              /\ r.log[1].cmd = "status"
              /\ r.log[1].arg.path = Join(Segments(r.args.folderPath), Delimiter)
              /\ /\ last.op = "folderMake" /\ last.log # <<>>
                 /\ Segments(last.args.folderPath) = Segments(r.args.folderPath)
                 => /\ \A k \in 1..n :
                          SameAnswers(r.log, last.log, k - 1) =>
                              /\ r.log[k].cmd = last.log[k].cmd
                              /\ r.log[k].arg = last.log[k].arg
                    /\ r.pc = "done" /\ SameAnswers(r.log, last.log, n) =>
                          /\ Len(r.log) = Len(last.log)
                          /\ r.ret = last.ret

\* C23 witness: folderMake('/A//B/') after folderMake('A\\B'), both with
\* three status queries and a mailboxCreate that was refused.
MadeWithSlashes ==
    \E t \in Tasks :
        /\ task[t].op = "folderMake" /\ task[t].pc = "done"
        /\ task[t].args.folderPath = <<"/", "A", "/", "/", "B", "/">>
        /\ last.op = "folderMake" /\ last.args.folderPath = <<"A", "\\", "B">>
        /\ Len(task[t].log) > 3 /\ Len(last.log) > 3

\* The status commands of a log.
Statuses(log) == SelectSeq(log, LAMBDA e : e.cmd = "status")

\* The path of the first k segments.
Prefix(segs, k) == Join(SubSeq(segs, 1, k), Delimiter)

\* The depth of the deepest ancestor a folderMake found existing: that of
\* its last status query when it answered a status, else the root.
FoundDepth(r) ==
    LET st == Statuses(r.log)
    IN  IF st[Len(st)].out = "status"
        THEN Len(Segments(r.args.folderPath)) - Len(st) + 1
        ELSE 0

\* C24: a folderMake of a path of n segments (n > 0) asks for the status of
\* the full path and then of its ancestors from the deepest up, until one
\* exists or the root is reached; only then, from the ancestor found at
\* depth d, it issues mailboxCreate for the prefixes of depth d+1, d+2, ...
\* in this order, each once and each after the one before succeeded, and
\* has created the full path when it returns true.  On a consistent server
\* no mailboxCreate is issued for a path that exists.
CreatesMissingPrefixesInOrder ==
    \A t \in Tasks :
        LET r == task[t]
            segs == Segments(r.args.folderPath)
            n == Len(segs)
            st == Statuses(r.log)
            cr == Creates(r.log)
            d == FoundDepth(r)
        IN  r.op = "folderMake" /\ r.log # <<>> /\ n > 0 =>
              /\ r.log = st \o cr
              /\ Len(st) <= n + 1
              /\ \A k \in 1..Len(st) : st[k].arg.path = Prefix(segs, n - k + 1)
              /\ \A k \in 1..(Len(st) - 1) : st[k].out # "status"
              /\ cr # <<>> =>
                    /\ Len(st) > 1
                    /\ st[Len(st)].out = "status" \/ Len(st) = n + 1
                    /\ d + Len(cr) <= n
                    /\ \A k \in 1..Len(cr) : cr[k].arg.path = Prefix(segs, d + k)
                    /\ \A k \in 1..(Len(cr) - 1) : cr[k].st = "ok"
                    /\ server.consistent /\ cr[Len(cr)].st = "pending"
                          => cr[Len(cr)].arg.path \notin server.folders
              /\ r.pc = "done" /\ r.ret = <<TRUE>> /\ st[1].out # "status" =>
                    /\ d + Len(cr) = n
                    /\ cr[Len(cr)].st = "ok"

\* C24 witness: folderMake('A/B/C') found 'A' as the deepest existing
\* ancestor, created 'A/B' and 'A/B/C' and returned true.
CreatedBelowAncestor ==
    \E t \in Tasks :
        /\ task[t].op = "folderMake" /\ task[t].pc = "done" /\ task[t].ret = <<TRUE>>
        /\ task[t].log # <<>> /\ FoundDepth(task[t]) = 1
        /\ Len(Creates(task[t].log)) = 2
        /\ server.consistent

\* C25: folderMake returns true only when every mailboxCreate it issued
\* succeeded; a mailboxCreate that threw is the last command of the call,
\* which returns false and does not throw.
CreateFailureIsFalse ==
    \A t \in Tasks :
        LET r == task[t]
            cr == Creates(r.log)
        IN  r.op = "folderMake" /\ r.log # <<>> =>
              /\ r.pc = "done" /\ r.ret = <<TRUE>> =>
                    \A k \in 1..Len(cr) : cr[k].st = "ok"
              /\ \A k \in 1..Len(r.log) :
                    r.log[k].cmd = "mailboxCreate" /\ r.log[k].st = "throw" =>
                        /\ k = Len(r.log)
                        /\ r.pc = "done" /\ r.res = "ok" /\ r.ret = <<FALSE>>

\* C25 witness: the second mailboxCreate of a folderMake threw and the
\* call returned false.
SecondCreateFailed ==
    \E t \in Tasks :
        /\ task[t].op = "folderMake" /\ task[t].pc = "done"
        /\ Len(Creates(task[t].log)) = 2
        /\ LastCmd(task[t]).cmd = "mailboxCreate" /\ LastCmd(task[t]).st = "throw"
        /\ task[t].res = "ok" /\ task[t].ret = <<FALSE>>

\* The segments of a path written with the delimiter d.
SegmentsBy(path, d) == SelectSeq(Split(path, d), LAMBDA x : x # <<>>)

\* C26: every path that folderExists and folderMake pass to status and to
\* mailboxCreate is written with the server's hierarchy delimiter: read
\* with that delimiter, it has the first segments of the caller's path.
PathsUseServerDelimiter ==
    \A t \in Tasks :
        LET r == task[t]
            segs == Segments(r.args.folderPath)
        IN  r.op \in {"folderExists", "folderMake"} =>
              \A k \in 1..Len(r.log) :
                  LET given == SegmentsBy(r.log[k].arg.path, server.delimiter)
                  IN  /\ Len(given) <= Len(segs)
                      /\ given = SubSeq(segs, 1, Len(given))

\* The fetchOne commands of a log.
Fetches(log) == SelectSeq(log, LAMBDA e : e.cmd = "fetchOne")

\* The fetchOne answered a message whose derived id is sesId.
Hit(e, sesId) ==
    e.st = "ok" /\ e.out # NoMsg /\ SesIdOf[e.out.hdr] = <<sesId>>

\* C27: searchMessageBySesId on a mailbox of N messages issues fetchOne
\* for N, N-1, ... one at a time, each after the one before was answered
\* without a hit; it returns the message of the first hit with its derived
\* id and fetches no more, returns null after N fetches without a hit, and
\* null without a fetch when N = 0.  The message returned is the one with
\* the highest sequence number among those that match.
ScanStopsAtFirstHit ==
    \A t \in Tasks :
        LET r == task[t]
            N == r.mailbox.exists
            f == Fetches(r.log)
        IN  r.op = "searchMessageBySesId" /\ r.nacq > 0 =>
              /\ Len(f) <= N
              /\ \A k \in 1..Len(f) : f[k].arg.handle = N - k + 1
              /\ \A k \in 1..(Len(f) - 1) : f[k].st = "ok" /\ ~Hit(f[k], r.args.sesId)
              /\ r.pc = "done" /\ r.res = "ok" =>
                    IF r.ret = <<>>
                    THEN /\ Len(f) = N
                         /\ \A k \in 1..N : ~Hit(f[k], r.args.sesId)
                    ELSE /\ Hit(f[Len(f)], r.args.sesId)
                         /\ r.ret = <<[f[Len(f)].out EXCEPT !.sesId = <<r.args.sesId>>]>>
                         /\ r.ret[1].n = N - Len(f) + 1
              /\ Len(f) > 0 /\ Hit(f[Len(f)], r.args.sesId) =>
                    r.pc = "done" /\ r.res = "ok" /\ r.ret # <<>>

\* C27 witness: the scan of two messages passed the newest, which did not
\* match, and returned the oldest.
ScanFoundTheOldest ==
    \E t \in Tasks :
        /\ task[t].op = "searchMessageBySesId" /\ task[t].pc = "done"
        /\ task[t].mailbox.exists = 2
        /\ Len(Fetches(task[t].log)) = 2
        /\ task[t].ret # <<>> /\ task[t].ret[1].n = 1

\* The call waits for getMailboxLock.
AwaitsLock(t) == task[t].pc = "await_lock"
\* getMailboxLock of the call has settled: the lock was handed out, or the
\* engine rejected the request.
LockSettled(t) ==
    \/ task[t].nacq = 1
    \/ task[t].pc = "done" /\ task[t].res = "err" /\ task[t].nacq = 0

\* C28: when an operation has ended, by success or by a failure inside its
\* locked section, it holds no lock: the session has no outstanding lock
\* when no call is in progress.  So an operation that then asks for the
\* lock does not wait forever: its getMailboxLock settles.
NoLockLeftBehind ==
    /\ [](\A t \in Tasks : task[t].pc = "done" => task[t].nrel = task[t].nacq)
    /\ []((\A t \in Tasks : task[t].pc \in {"idle", "done"})
            => \A c \in Inst : locks[c] = 0)
    /\ \A t \in Tasks : AwaitsLock(t) ~> LockSettled(t)

\* C28 witness: the call before failed inside its locked section, and this
\* call on the same client has the lock.
LockAcquiredAfterFailure ==
    \E t \in Tasks :
        /\ last.res = "err" /\ last.nacq = 1 /\ last.c = task[t].c
        /\ task[t].nacq = 1 /\ task[t].pc \notin {"idle", "done"}

\* The mailboxes whose message sequence an operation reads or changes: its
\* folder, and for a move the target folder.
MailboxesOf(r) ==
    IF r.op \in MoveOps THEN {r.args.folder, r.args.targetFolder} ELSE {r.args.folder}

\* The operation is at work on its mailboxes: it is inside its locked
\* section, or a message command it issued has not been answered.
AtWork(r) ==
    /\ r.op \in LockedOps
    /\ \/ r.nacq > r.nrel
       \/ r.log # <<>> /\ LastCmd(r).st = "pending"

ConnectFailed(r) ==
    /\ r.c \in Inst /\ r.nconn > 0 /\ r.pc # "await_connect"
    /\ ~isConnected[r.c]

\* C30: a call whose connect() failed made exactly one handshake attempt,
\* acquired no lock and issued no other engine command, and ends by
\* throwing to its caller, folderExists and folderMake included; the
\* client stays disconnected.  No call makes a second attempt.
ConnectFailureSurfaces ==
    \A t \in Tasks :
        LET r == task[t]
        IN  /\ r.nconn <= 1
            /\ ConnectFailed(r) =>
                  /\ r.pc \in {"connect_threw", "done"}
                  /\ r.pc = "done" => r.res = "err"
                  /\ r.nacq = 0 /\ r.nrel = 0 /\ r.log = <<>> /\ r.nlogout = 0
                  /\ locks[r.c] = 0

\* C30 witness: folderMake threw after the one connect() it made failed.
FolderMakeThrewOnConnect ==
    \E t \in Tasks :
        /\ task[t].op = "folderMake" /\ task[t].pc = "done" /\ task[t].res = "err"
        /\ task[t].nconn = 1 /\ task[t].log = <<>>
        /\ ~isConnected[task[t].c]

\* The calls that wait for the engine's connect() of client c.
Connecting(c) == {t \in Tasks : task[t].c = c /\ task[t].pc = "await_connect"}

\* C31: of the operations that overlap on one shared client at most one has
\* the engine's connect() in flight, and none while the client is
\* connected: the engine is asked to connect once per session.
OneConnectPerSession ==
    \A c \in Inst :
        /\ Cardinality(Connecting(c)) <= 1
        /\ isConnected[c] => Connecting(c) = {}

\* C32: when a clearImapClientCache that waited for a logout empties the
\* registry, every client in it that is connected is one the call has
\* called disconnect() on, also when getImapClient and connect ran while it
\* waited.
ClearDisconnectsWhatItRemoves ==
    [][\A t \in Tasks :
          (task[t].op = "clearImapClientCache" /\ task[t].pc = "await_all"
              /\ task[t].nlogout > 0
              /\ task'[t].pc = "done" /\ task'[t].res = "ok")
          => \A c \in Range(clientInstances) :
                isConnected[c] => c \in task[t].loc.attempted]_vars

\* The operations that look a message up by its Message-ID and fetch it.
LookupOps == {"findMessageByMessageId", "getMessageHeaders", "getRawMessageHeaders"}

\* C33: when the Message-ID search of findMessageByMessageId,
\* getMessageHeaders or getRawMessageHeaders resolved to one or more
\* matches, exactly one fetchOne follows, for the first match in the order
\* the engine returned; no other match is fetched.
FirstMatchIsFetched ==
    \A t \in Tasks :
        LET r == task[t]
        IN  r.op \in LookupOps =>
              \A i \in 1..Len(r.log) :
                 (r.log[i].cmd = "search" /\ r.log[i].st = "ok"
                     /\ r.log[i].out # <<>>) =>
                    /\ Len(r.log) = i + 1
                    /\ r.log[i + 1].cmd = "fetchOne"
                    /\ r.log[i + 1].arg.handle = r.log[i].out[1]

\* C33 witness: the search of getMessageHeaders resolved to two matches and
\* the message of the first one was fetched and returned.
FetchedFirstOfTwo ==
    \E t \in Tasks :
        /\ task[t].op = "getMessageHeaders" /\ task[t].pc = "done"
        /\ Len(task[t].log) = 2
        /\ task[t].log[1].cmd = "search" /\ Len(task[t].log[1].out) = 2
        /\ task[t].log[2].st = "ok" /\ task[t].log[2].out # NoMsg
        /\ task[t].log[2].out.n = task[t].log[1].out[1]
        /\ task[t].log[1].out[1] # task[t].log[1].out[2]

\* The summary without what listSESMessages adds: the header text and the
\* derived id.
Plain(message) == [message EXCEPT !.hdr = 0, !.sesId = <<>>]

\* The listing r returned and the listing before it were one a listMessages
\* and one a listSESMessages, of the same folder with the same limit, on
\* the same mailbox state.
SameListingTwice(r) ==
    /\ r.pc = "done" /\ r.res = "ok" /\ last.res = "ok"
    /\ {r.op, last.op} = {"listMessages", "listSESMessages"}
    /\ r.args = last.args /\ r.mailbox = last.mailbox

\* C34: listSESMessages and listMessages of the same folder with the same
\* limit on the same mailbox state return summaries of the same messages
\* in the same order, which differ in the header text and the derived id
\* only.
ListingsAgree ==
    \A t \in Tasks :
        LET r == task[t]
        IN  SameListingTwice(r) =>
              /\ Len(r.ret[1]) = Len(last.ret[1])
              /\ \A i \in 1..Len(r.ret[1]) : Plain(r.ret[1][i]) = Plain(last.ret[1][i])

\* C34 witness: after a listMessages that the limit cut to the newest
\* message, listSESMessages returned the same message, with a derived id.
ListedTwiceCutByLimit ==
    \E t \in Tasks :
        /\ SameListingTwice(task[t])
        /\ task[t].op = "listSESMessages"
        /\ task[t].mailbox.exists = 2 /\ task[t].args.limit = 1
        /\ Len(task[t].ret[1]) = 1 /\ task[t].ret[1][1].n = 2
        /\ task[t].ret[1][1].sesId # <<>>
        /\ last.ret[1] # task[t].ret[1]

\* C35: every path folderMake passes to mailboxCreate is non-empty and has
\* no empty segment, whatever the argument, the empty string and '/'
\* included.
CreatedPathsHaveNoEmptySegment ==
    \A t \in Tasks :
        \A i \in 1..Len(task[t].log) :
            task[t].log[i].cmd = "mailboxCreate" =>
                LET segments == Split(task[t].log[i].arg.path, Delimiter)
                IN  /\ task[t].log[i].arg.path # <<>>
                    /\ \A k \in 1..Len(segments) : segments[k] # <<>>

\* Task t takes a step from its getMailboxLock without getting the lock:
\* the engine rejected the request.
LockRefused(t) ==
    /\ task[t].pc = "await_lock"
    /\ task'[t] # task[t]
    /\ task'[t].nacq = task[t].nacq

\* C36: when getMailboxLock fails the operation throws to its caller at
\* once: it has issued and issues no search, fetch, fetchOne or
\* messageMove, calls release on no lock, and the engine's locks and the
\* connected flags stay as they are.
LockFailurePropagates ==
    [][\A t \in Tasks :
          LockRefused(t) =>
             /\ task'[t].pc = "done" /\ task'[t].res = "err"
             /\ task'[t].log = <<>>
             /\ task'[t].nrel = 0 /\ task'[t].nlogout = 0
             /\ locks' = locks
             /\ isConnected' = isConnected]_vars

\* C36 witness: a moveMessage that connected the client ended by throwing
\* without a lock; the client is still connected.
MoveThrewWithoutLock ==
    \E t \in Tasks :
        /\ task[t].op = "moveMessage" /\ task[t].pc = "done" /\ task[t].res = "err"
        /\ task[t].nconn = 1 /\ isConnected[task[t].c]
        /\ task[t].nacq = 0 /\ task[t].nrel = 0 /\ task[t].log = <<>>

\* C37: on a server that answers status by what exists, when folderMake(p)
\* returned true for a path p that names a folder, the folderExists(p) that
\* follows with the same argument string and reaches the server returns
\* true, also for arguments with leading, trailing or doubled separators.
MadeFolderExists ==
    \A t \in Tasks :
        LET r == task[t]
        IN  (/\ server.consistent
             /\ last.op = "folderMake" /\ last.res = "ok" /\ last.ret = <<TRUE>>
             /\ r.op = "folderExists" /\ r.pc = "done" /\ r.res = "ok"
             /\ r.args.folderPath = last.args.folderPath
             /\ Segments(r.args.folderPath) # <<>>)
            => r.ret = <<TRUE>>

\* C38: folderMake issues no mailboxCreate for a path that is a mailbox of
\* the server, whatever the status queries answered.
CreatesOnlyWhatIsMissing ==
    \A t \in Tasks :
        task[t].pc = "await_create" => task[t].loc.currentPath \notin server.folders

\* The operation holds the lock it obtained.
HoldsLock(r) == r.op \in LockedOps /\ r.nacq > r.nrel

RegistryOps == {"getImapClient", "clearImapClientCache"}

\* C40: the registry changes only in a step of getImapClient or of
\* clearImapClientCache: connect, disconnect and the mailbox and folder
\* operations leave the cached identities and their instances as they are.
\* So getImapClient returns the instance stored for the identity, whether
\* that client is connected or was disconnected.
OnlyRegistryOpsChangeRegistry ==
    /\ [][clientInstances' # clientInstances =>
             \E t \in Tasks : task'[t] # task[t] /\ task'[t].op \in RegistryOps]_vars
    /\ [](\A t \in Tasks :
             (task[t].op = "getImapClient" /\ task[t].pc = "done") =>
                /\ Key(task[t].args.config) \in DOMAIN clientInstances
                /\ task[t].ret = <<clientInstances[Key(task[t].args.config)]>>)

\* C40 witness: an explicit disconnect() has logged the client out, and the
\* client is still the instance cached for its identity.
DisconnectedStaysCached ==
    \E t \in Tasks :
        /\ task[t].op = "disconnect" /\ task[t].pc = "done" /\ task[t].res = "ok"
        /\ task[t].nlogout = 1 /\ ~isConnected[task[t].c]
        /\ \E k \in DOMAIN clientInstances : clientInstances[k] = task[t].c
====
